---------------------------- MODULE Spec2Model ----------------------------
(***************************************************************************)
(* Model of the evaluation core of yks-ai-benchmark: the answer extractor  *)
(* (Evaluator.extract_answer_and_reasoning), the three vendor evaluate     *)
(* folds, the per-subject breakdown and the correlation key of a Question. *)
(*                                                                         *)
(* A text is a sequence of characters; a character is a one-character      *)
(* string, except the non-ASCII ones, which are named tokens:              *)
(*   "i_dotless" U+0131, "s_cedilla" U+015F, "S_cedilla" U+015E,           *)
(*   "c_cedilla" U+00E7, "C_cedilla" U+00C7, "sharp_s" U+00DF.             *)
(* Python's None is NoneStr where a text is expected, NoAnswer where an    *)
(* answer letter is expected and Absent where a number is expected.        *)
(***************************************************************************)
EXTENDS Integers, Sequences, FiniteSets, TLC

VARIABLES
    mode,                 \* which operation is being exercised: "extract", "question", "evaluate",
                          \* "cost", "wait" (a method of a batch service) or "run" (main)
    pc,                   \* position of the running operation
    text,                 \* extract_answer_and_reasoning: the argument
    out,                  \* extract_answer_and_reasoning: the returned pair (and the rule that returned)
    question,             \* the Question constructed by the loader
    parsed,               \* the (subject, question_id) an evaluator parses from question.custom_id
    vendor,               \* which evaluate_*_results runs
    ground_truth,         \* Evaluator.ground_truth
    results,              \* the argument of evaluate_*_results
    idx,                  \* number of records the loop has consumed
    evaluations,          \* the local list evaluations
    correct,              \* the local counter correct
    total,                \* the local counter total
    total_input_tokens,   \* the local counter total_input_tokens
    total_output_tokens,  \* the local counter total_output_tokens
    raised,               \* the exception that ended the call, or "none"
    ret,                  \* the dict returned by evaluate_*_results
    per_subject,          \* the dict returned by calculate_per_subject_accuracy
    price_table,          \* config.PRICING as calculate_cost finds it
    model,                \* calculate_cost: the argument model
    input_tokens,         \* calculate_cost: the argument input_tokens
    output_tokens,        \* calculate_cost: the argument output_tokens
    cost,                 \* the value returned by calculate_cost
    batch_id,             \* the service's batch_id (batch_name for Gemini), or "None"
    status,               \* wait_for_completion: the job status the last poll observed
    elapsed,              \* seconds slept by wait_for_completion since it was called
    success,              \* the value returned by wait_for_completion
    op,                   \* the method called on a vendor's service, or "none"
    contacted,            \* whether the call has made a request to the vendor
    models,               \* main: the vendors selected on the command line, in run order
    run_results,          \* main: the dict results, vendor -> what its run returned
    metrics,              \* run_*_benchmark: the dict metrics
    reports               \* what generate_all_reports wrote

costVars == <<price_table, model, input_tokens, output_tokens, cost>>
waitVars == <<batch_id, status, elapsed, success, op, contacted>>
runVars == <<models, run_results, metrics, reports>>

vars == <<mode, pc, text, out, question, parsed, vendor, ground_truth, results, idx,
          evaluations, correct, total, total_input_tokens, total_output_tokens,
          raised, ret, per_subject, costVars, waitVars, runVars>>

(***************************************************************************)
(* Bounds of the model.                                                    *)
(***************************************************************************)
\* number of vocabulary chunks an input text of the extractor is built from
MaxChunks == 2
\* length of the result sequence handed to an evaluate call
MaxResults == 2
\* length of the subject and of the question id of a Question
MaxIdLen == 2
\* token counts handed to calculate_cost (besides one million)
MaxTokens == 2
\* polls the model follows wait_for_completion for beyond MAX_WAIT_TIME
MaxOvertimePolls == 1

(***************************************************************************)
(* Python values.                                                          *)
(***************************************************************************)
NoneStr == <<"None">>
NoAnswer == "None"
Absent == -1

Truthy(s) == s # NoneStr /\ s # <<>>

MinOf(S) == CHOOSE x \in S : \A y \in S : x <= y
MaxOf(S) == CHOOSE x \in S : \A y \in S : x >= y

(***************************************************************************)
(* Characters: str.upper, str.isspace, the regex classes \s and \w.        *)
(***************************************************************************)
LowerAZ == <<"a","b","c","d","e","f","g","h","i","j","k","l","m",
             "n","o","p","q","r","s","t","u","v","w","x","y","z">>
UpperAZ == <<"A","B","C","D","E","F","G","H","I","J","K","L","M",
             "N","O","P","Q","R","S","T","U","V","W","X","Y","Z">>
Digits == {"0","1","2","3","4","5","6","7","8","9"}
Range(s) == {s[i] : i \in 1..Len(s)}

\* str.upper on one character: the result is a text, since the upper case of
\* U+00DF is the two characters "SS"; U+0131 becomes the ASCII "I".
UpperCharIdentity(c) == <<c>>
UpperChar(c) ==
    IF c \in Range(LowerAZ)
    THEN <<UpperAZ[CHOOSE i \in 1..Len(LowerAZ) : LowerAZ[i] = c]>>
    ELSE CASE c = "i_dotless" -> <<"I">>
           [] c = "s_cedilla" -> <<"S_cedilla">>
           [] c = "c_cedilla" -> <<"C_cedilla">>
           [] c = "sharp_s"   -> <<"S", "S">>
           [] OTHER           -> <<c>>

RECURSIVE Upper(_)
Upper(s) == IF s = <<>> THEN <<>> ELSE UpperChar(Head(s)) \o Upper(Tail(s))

SpaceChars == {" ", "\n", "\t"}
IsSpace(c) == c \in SpaceChars

IsWordChar(c) ==
    \/ c \in Range(LowerAZ) \/ c \in Range(UpperAZ) \/ c \in Digits \/ c = "_"
    \/ c \in {"i_dotless", "s_cedilla", "S_cedilla", "c_cedilla", "C_cedilla", "sharp_s"}

\* str.strip()
StripNothing(s) == s
Strip(s) ==
    LET keep == {i \in 1..Len(s) : ~IsSpace(s[i])}
    IN  IF keep = {} THEN <<>> ELSE SubSeq(s, MinOf(keep), MaxOf(keep))

\* s[:n] for n >= 0
Slice(s, n) == SubSeq(s, 1, IF n < Len(s) THEN n ELSE Len(s))

(***************************************************************************)
(* Regular expressions. Offsets are 0-based, as in Python: the character   *)
(* at offset p of u is u[p+1]. A pattern is the sequence of its elements;  *)
(* MatchFrom is the backtracking matcher of re: a greedy repetition tries  *)
(* the longest run first, an optional group is tried before its absence,   *)
(* alternatives are tried left to right.                                   *)
(***************************************************************************)
CharAt(u, p) == IF p >= 0 /\ p < Len(u) THEN u[p + 1] ELSE ""

\* \b at offset p
Boundary(u, p) == IsWordChar(CharAt(u, p - 1)) # IsWordChar(CharAt(u, p))

\* the literal w at offset p
LitAt(u, p, w) == p + Len(w) <= Len(u) /\ SubSeq(u, p + 1, p + Len(w)) = w

\* the length of the longest run of characters of cls starting at offset p
RunLen(u, p, cls) ==
    CHOOSE n \in 0..(Len(u) - p) :
        /\ \A r \in p..(p + n - 1) : u[r + 1] \in cls
        /\ p + n = Len(u) \/ u[p + n + 1] \notin cls

\* $ : the end of the text, or just before a newline that ends the text
AtEnd(u, p) == p = Len(u) \/ (p = Len(u) - 1 /\ u[Len(u)] = "\n")

AnswerLetters == {"A", "B", "C", "D", "E"}
IsLetterAt(u, p) == CharAt(u, p) \in AnswerLetters

\* the elements of a pattern
Lit(w) == [kind |-> "lit", w |-> w]                    \* literal text
Alt(ws) == [kind |-> "alt", ws |-> ws]                 \* (?:w1|w2|...)
Plus(cls) == [kind |-> "rep", cls |-> cls, min |-> 1]  \* [cls]+
Star(cls) == [kind |-> "rep", cls |-> cls, min |-> 0]  \* [cls]*
Opt(sub) == [kind |-> "opt", sub |-> sub]              \* (?:sub)?
Capture == [kind |-> "capture"]                        \* ([A-E])
WordBoundary == [kind |-> "b"]                         \* \b
End == [kind |-> "end"]                                \* $

\* the letter captured by the first successful way (in re's order) of matching
\* the elements elems at offset p, or NoAnswer when there is none; cap is the
\* letter captured so far
RECURSIVE MatchFrom(_, _, _, _)
MatchFrom(u, p, elems, cap) ==
    IF elems = <<>> THEN cap
    ELSE LET e == Head(elems)
             rest == Tail(elems)
         IN  CASE e.kind = "lit" ->
                    IF LitAt(u, p, e.w) THEN MatchFrom(u, p + Len(e.w), rest, cap)
                    ELSE NoAnswer
               [] e.kind = "alt" ->
                    LET ok == {i \in 1..Len(e.ws) :
                                  /\ LitAt(u, p, e.ws[i])
                                  /\ MatchFrom(u, p + Len(e.ws[i]), rest, cap) # NoAnswer}
                    IN  IF ok = {} THEN NoAnswer
                        ELSE MatchFrom(u, p + Len(e.ws[MinOf(ok)]), rest, cap)
               [] e.kind = "rep" ->
                    LET ok == {n \in e.min..RunLen(u, p, e.cls) :
                                  MatchFrom(u, p + n, rest, cap) # NoAnswer}
                    IN  IF ok = {} THEN NoAnswer
                        ELSE MatchFrom(u, p + MaxOf(ok), rest, cap)
               [] e.kind = "opt" ->
                    LET with == MatchFrom(u, p, e.sub \o rest, cap)
                    IN  IF with # NoAnswer THEN with ELSE MatchFrom(u, p, rest, cap)
               [] e.kind = "capture" ->
                    IF IsLetterAt(u, p) THEN MatchFrom(u, p + 1, rest, CharAt(u, p))
                    ELSE NoAnswer
               [] e.kind = "b" ->
                    IF Boundary(u, p) THEN MatchFrom(u, p, rest, cap) ELSE NoAnswer
               [] e.kind = "end" ->
                    IF AtEnd(u, p) THEN MatchFrom(u, p, rest, cap) ELSE NoAnswer

NoMatch == [start |-> -1, answer |-> NoAnswer]

\* the offsets at which the pattern matches
MatchStarts(u, pattern) ==
    {p \in 0..(Len(u) - 1) : MatchFrom(u, p, pattern, NoAnswer) # NoAnswer}

MatchAtOffset(u, pattern, p) ==
    [start |-> p, answer |-> MatchFrom(u, p, pattern, NoAnswer)]

\* re.search: the match at the leftmost offset
Search(u, pattern) ==
    LET starts == MatchStarts(u, pattern)
    IN  IF starts = {} THEN NoMatch ELSE MatchAtOffset(u, pattern, MinOf(starts))

\* the last match of re.finditer, and the first hit of a scan from the end
SearchLast(u, pattern) ==
    LET starts == MatchStarts(u, pattern)
    IN  IF starts = {} THEN NoMatch ELSE MatchAtOffset(u, pattern, MaxOf(starts))

(***************************************************************************)
(* The eight patterns of extract_answer_and_reasoning, matched against the *)
(* upper-cased text.                                                       *)
(***************************************************************************)
ColonOrSpace == {":"} \cup SpaceChars
CommaOrSpace == {","} \cup SpaceChars
DotOrParen == {".", ")"}

W_BOXED == <<"\\", "B", "O", "X", "E", "D", "{">>
W_ANSWER == <<"A", "N", "S", "W", "E", "R">>
W_CEVAP == <<"C", "E", "V", "A", "P">>
W_YANIT == <<"Y", "A", "N", "I", "T">>
W_THE == <<"T", "H", "E">>
W_FINAL == <<"F", "I", "N", "A", "L">>
W_IS == <<"I", "S">>
W_TEXT == <<"$", "\\", "T", "E", "X", "T", "{">>
W_THEREFORE == <<"T", "H", "E", "R", "E", "F", "O", "R", "E">>
W_THUS == <<"T", "H", "U", "S">>
W_HENCE == <<"H", "E", "N", "C", "E">>
W_OPTION == <<"O", "P", "T", "I", "O", "N">>
W_SIK == <<"S_cedilla", "I", "K">>
W_SECENEK == <<"S", "E", "C_cedilla", "E", "N", "E", "K">>

\* \\BOXED\{([A-E])\}
Pattern1 == <<Lit(W_BOXED), Capture, Lit(<<"}">>)>>

\* (?:ANSWER|CEVAP|YANIT)[:\s]+([A-E])\b
Pattern2Turkish ==
    <<Alt(<<W_CEVAP, W_YANIT>>), Plus(ColonOrSpace), Capture, WordBoundary>>
Pattern2 == <<Alt(<<W_ANSWER, W_CEVAP, W_YANIT>>), Plus(ColonOrSpace), Capture, WordBoundary>>

\* (?:THE\s+)?FINAL\s+ANSWER\s+(?:IS|:)\s+(?:\$\\TEXT\{)?([A-E])\}?
Pattern3 == <<Opt(<<Lit(W_THE), Plus(SpaceChars)>>), Lit(W_FINAL), Plus(SpaceChars),
              Lit(W_ANSWER), Plus(SpaceChars), Alt(<<W_IS, <<":">>>>), Plus(SpaceChars),
              Opt(<<Lit(W_TEXT)>>), Capture, Opt(<<Lit(<<"}">>)>>)>>

\* (?:THEREFORE|THUS|HENCE)[,\s]+(?:THE\s+ANSWER\s+IS\s+)?([A-E])\b
Pattern4 == <<Alt(<<W_THEREFORE, W_THUS, W_HENCE>>), Plus(CommaOrSpace),
              Opt(<<Lit(W_THE), Plus(SpaceChars), Lit(W_ANSWER), Plus(SpaceChars),
                    Lit(W_IS), Plus(SpaceChars)>>),
              Capture, WordBoundary>>

\* \b([A-E])\s*[.\)]*\s*$
Pattern5 == <<WordBoundary, Capture, Star(SpaceChars), Star(DotOrParen), Star(SpaceChars), End>>

\* (?:OPTION|<S_cedilla>IK|SE<C_cedilla>ENEK)\s+([A-E])\b
Pattern6 == <<Alt(<<W_OPTION, W_SIK, W_SECENEK>>), Plus(SpaceChars), Capture, WordBoundary>>

\* \b([A-E])\b
Pattern7 == <<WordBoundary, Capture, WordBoundary>>

\* text_upper[i] in 'ABCDE'
Pattern8Standalone == <<WordBoundary, Capture, WordBoundary>>
Pattern8 == <<Capture>>

\* the match of rule k in the upper-cased text: rules 1-6 take the leftmost
\* match (re.search), rule 7 the last match of finditer, rule 8 scans from the end
RuleMatch(k, u) ==
    CASE k = 1 -> Search(u, Pattern1)
      [] k = 2 -> Search(u, Pattern2)
      [] k = 3 -> Search(u, Pattern3)
      [] k = 4 -> Search(u, Pattern4)
      [] k = 5 -> Search(u, Pattern5)
      [] k = 6 -> Search(u, Pattern6)
      [] k = 7 -> SearchLast(u, Pattern7)
      [] k = 8 -> SearchLast(u, Pattern8)

\* rules 7 and 8 keep the whole text as reasoning unless the letter lies
\* more than this many characters from the start
ReasoningThreshold == 20

\* the reasoning returned by rule k for a match at offset start
RuleReasoning(k, original_text, start) ==
    IF k <= 6 THEN Strip(Slice(original_text, start))
    ELSE IF start > ReasoningThreshold THEN Strip(Slice(original_text, start))
    ELSE original_text

\* the order in which the function tries its rules
CascadeOptionFirst == <<1, 2, 3, 4, 6, 5, 7, 8>>
Cascade == <<1, 2, 3, 4, 5, 6, 7, 8>>

\* the first rule of the cascade that matches, or 9 when none does
FirstRule(u) ==
    LET hits == {i \in 1..Len(Cascade) : RuleMatch(Cascade[i], u) # NoMatch}
    IN  IF hits = {} THEN 9 ELSE Cascade[MinOf(hits)]

\* what the function returns when no rule matched
NoRuleResultEmpty(original_text) ==
    [answer |-> NoAnswer, reasoning |-> <<>>, rule |-> 9]
NoRuleResult(original_text) ==
    [answer |-> NoAnswer, reasoning |-> original_text, rule |-> 9]

\* what the function returns for a falsy argument
FalsyResultRaises(t) == [answer |-> "AttributeError", reasoning |-> <<>>, rule |-> -1]
FalsyResult(t) == [answer |-> NoAnswer, reasoning |-> <<>>, rule |-> 0]

\* the return statement of rule k, whose match is m
RuleResult(k, original_text, m) ==
    [answer |-> m.answer,
     reasoning |-> RuleReasoning(k, original_text, m.start),
     rule |-> k]

\* the cascade, with k the first rule that matches
ExtractByRule(k, original_text, text_upper) ==
    IF k = 9 THEN NoRuleResult(original_text)
    ELSE RuleResult(k, original_text, RuleMatch(k, text_upper))

\* the function after "if not text"
ExtractFrom(original_text, text_upper) ==
    ExtractByRule(FirstRule(text_upper), original_text, text_upper)

\* extract_answer_and_reasoning(text): the pair returned, and in "rule" the
\* return statement that produced it (0: falsy input, 1..8: the rule, 9: none)
extract_answer_and_reasoning(t) ==
    IF ~Truthy(t) THEN FalsyResult(t)
    ELSE ExtractFrom(Strip(t), Strip(Upper(t)))

(***************************************************************************)
(* Input texts of the extractor: None, and every concatenation of at most  *)
(* MaxChunks chunks of a vocabulary of response fragments (English and     *)
(* Turkish labels, letters in both cases, punctuation, white space), plus  *)
(* the example responses of the documentation.                             *)
(***************************************************************************)
K_boxed == <<"\\", "b", "o", "x", "e", "d", "{", "D", "}">>
K_answer == <<"A", "n", "s", "w", "e", "r", ":", " ">>
K_yanit == <<"y", "a", "n", "i_dotless", "t", " ">>
K_final == <<"f", "i", "n", "a", "l", " ", "a", "n", "s", "w", "e", "r", " ", "i", "s", " ">>
K_the == <<"T", "h", "e", " ">>
K_thus == <<"T", "h", "u", "s", ",", " ">>
K_phrase == <<"t", "h", "e", " ", "a", "n", "s", "w", "e", "r", " ", "i", "s", " ">>
K_option == <<"O", "p", "t", "i", "o", "n", " ">>
K_B == <<"B", " ">>
K_c == <<"c">>
K_dot == <<".">>
K_x == <<"x">>
K_sharp == <<"sharp_s">>
K_space == <<" ">>
Chunks == {K_boxed, K_answer, K_yanit, K_final, K_the, K_thus, K_phrase, K_option,
           K_B, K_c, K_dot, K_x, K_sharp, K_space}

X_reasoning == <<"S", "o", "m", "e", " ", "r", "e", "a", "s", "o", "n", "i", "n", "g", " ",
                 "h", "e", "r", "e", ".", " ", "A", "n", "s", "w", "e", "r", ":", " ">>
X_passage == <<"T", "h", "e", " ", "p", "a", "s", "s", "a", "g", "e", " ", "e", "x", "p", "l",
               "a", "i", "n", "s", " ", "X", " ", "i", "s", " ", "c", "o", "r", "r", "e", "c",
               "t", ".", " ", "D", ".">>
X_option == <<"O", "p", "t", "i", "o", "n", " ", "B", " ", "i", "s", " ", "t", "e", "m", "p",
              "t", "i", "n", "g", ".", " ", "C">>
X_tempting == <<"O", "p", "t", "i", "o", "n", " ", "B", " ", "i", "s", " ", "t", "e", "m", "p",
                "t", "i", "n", "g">>
X_far == <<"t", "h", "i", "s", " ", "i", "s", " ", "n", "o", "t", " ", "t", "h", "e", " ",
           "l", "e", "t", "t", "e", "r", ":", " ", "B", " ", "x">>
X_shifted == <<"sharp_s", "i", "s", " ", "n", "o", "t", " ", "t", "h", "e", " ", "l", "e",
               "t", "t", "e", "r", ":", " ", "B", " ", "x">>
X_twice == <<"S", "o", " ", "A", "n", "s", "w", "e", "r", ":", " ", "A", " ", "t", "h", "e", "n", " ", "A", "n", "s", "w", "e", "r", ":", " ", "B">>
X_sharp_twice == <<"sharp_s", " ", "A", "n", "s", "w", "e", "r", ":", " ", "A", " ", "A", "n", "s", "w", "e", "r", ":", " ", "B">>
X_or == <<"A", " ", "o", "r", " ", "B", " ", "x">>
X_question == <<"I", " ", "w", "i", "l", "l", " ", "a", "n", "s", "w", "e", "r", " ", "a", " ", "q", "u", "e", "s", "t", "i", "o", "n">>
ExampleTexts ==
    {X_reasoning \o <<x>> : x \in AnswerLetters}
        \cup {X_passage, X_option, X_tempting, X_far, X_shifted, X_question,
              X_twice, X_sharp_twice, X_or}

RECURSIVE ChunkTexts(_)
ChunkTexts(n) ==
    IF n = 0 THEN {<<>>}
    ELSE LET shorter == ChunkTexts(n - 1)
         IN  shorter \cup {t \o k : t \in shorter, k \in Chunks}

TextInputs == {NoneStr} \cup ChunkTexts(MaxChunks) \cup ExampleTexts

NoOut == [answer |-> NoAnswer, reasoning |-> <<>>, rule |-> -1]

(***************************************************************************)
(* The correlation key: Question.__init__ builds it, the evaluators split  *)
(* it at the first underscore.                                             *)
(***************************************************************************)
\* f"{subject}_{question_id}"
FormatCustomId(subject, question_id) == subject \o <<"_">> \o question_id

\* the Question object: subject, question_id and custom_id
Question(subject, question_id) ==
    [subject |-> subject, question_id |-> question_id,
     custom_id |-> FormatCustomId(subject, question_id)]

\* custom_id.split("_", 1): the list of one or two parts
SplitAtLast(s) ==
    LET us == {i \in 1..Len(s) : s[i] = "_"}
    IN  IF us = {} THEN <<s>>
        ELSE <<SubSeq(s, 1, MaxOf(us) - 1), SubSeq(s, MaxOf(us) + 1, Len(s))>>
SplitAtFirst(s) ==
    LET us == {i \in 1..Len(s) : s[i] = "_"}
    IN  IF us = {} THEN <<s>>
        ELSE <<SubSeq(s, 1, MinOf(us) - 1), SubSeq(s, MinOf(us) + 1, Len(s))>>

IdChars == {"t", "_", "1"}
IdStrings == UNION {[1..n -> IdChars] : n \in 0..MaxIdLen}

NoQuestion == [subject |-> <<>>, question_id |-> <<>>, custom_id |-> <<>>]
NoParsed == <<NoneStr>>

(***************************************************************************)
(* Ground truth and scoring.                                               *)
(***************************************************************************)
TruthyAnswer(a) == a # NoAnswer /\ a # ""

\* self.ground_truth.get(subject, {}).get(question_id)
Lookup(gt, subject, question_id) ==
    IF subject \in DOMAIN gt
    THEN IF question_id \in DOMAIN gt[subject] THEN gt[subject][question_id] ELSE NoAnswer
    ELSE NoAnswer

\* is_correct: both present and equal after .upper()
IsCorrectCaseSensitive(truth, model_answer) ==
    TruthyAnswer(truth) /\ TruthyAnswer(model_answer) /\ model_answer = truth
IsCorrect(truth, model_answer) ==
    TruthyAnswer(truth) /\ TruthyAnswer(model_answer)
        /\ Upper(<<model_answer>>) = Upper(<<truth>>)

\* "if ground_truth: total += 1"
CountsTotalAlways(truth) == TRUE
CountsTotal(truth) == TruthyAnswer(truth)

\* dict.get(key, 0) of a token count
Get0Raw(v) == v
Get0(v) == IF v = Absent THEN 0 ELSE v

\* str() of a non-negative integer, and of None
DigitChars == <<"0", "1", "2", "3", "4", "5", "6", "7", "8", "9">>
RECURSIVE IntStr(_)
IntStr(n) == IF n < 10 THEN <<DigitChars[n + 1]>>
             ELSE IntStr(n \div 10) \o <<DigitChars[(n % 10) + 1]>>
W_None == <<"N", "o", "n", "e">>
StatusStr(code) == IF code = Absent THEN W_None ELSE IntStr(code)

\* f"Error: {code}"
W_ErrorPrefix == <<"E", "r", "r", "o", "r", ":", " ">>
ErrorTextBare(code) == code
ErrorText(code) == W_ErrorPrefix \o code

\* "correct / total if total > 0 else 0", as the exact fraction num/den
\* (den = 0 stands for the ZeroDivisionError of an unguarded division)
AccuracyUnguarded(c, t) == [num |-> c, den |-> t]
Accuracy(c, t) == IF t > 0 THEN [num |-> c, den |-> t] ELSE [num |-> 0, den |-> 1]

\* the outcome of one loop iteration that raises
Raises(exc) ==
    [exc |-> exc, skip |-> FALSE, evaluation |-> <<>>,
     correct |-> 0, total |-> 0, input |-> 0, output |-> 0]
\* the outcome of one loop iteration that hits "continue"
Skips ==
    [exc |-> "none", skip |-> TRUE, evaluation |-> <<>>,
     correct |-> 0, total |-> 0, input |-> 0, output |-> 0]

(***************************************************************************)
(* One iteration of each vendor's loop. The vendor-specific part reads the *)
(* record into response_text, model_answer, reasoning and the token counts *)
(* it adds; the scoring part (the same statements in the three methods)    *)
(* yields the evaluation appended and what is added to correct and total.  *)
(***************************************************************************)
\* a record that is answered: the extractor is run on its text
Answered(response_text, ex, in, outp) ==
    [response_text |-> response_text, model_answer |-> ex.answer,
     reasoning |-> ex.reasoning, input |-> in, output |-> outp]
\* a record without an answer: errored, or without choice / candidate
Unanswered(response_text) ==
    [response_text |-> response_text, model_answer |-> NoAnswer,
     reasoning |-> <<>>, input |-> 0, output |-> 0]

\* the dict appended to evaluations (evaluate_openai_results stores no reasoning)
EvaluationDict(custom_id, subject, question_id, truth, resp, is_correct, keeps_reasoning) ==
    IF keeps_reasoning
    THEN [custom_id |-> custom_id, subject |-> subject, question_id |-> question_id,
          ground_truth |-> truth, model_answer |-> resp.model_answer,
          reasoning |-> resp.reasoning, response_text |-> resp.response_text,
          correct |-> is_correct]
    ELSE [custom_id |-> custom_id, subject |-> subject, question_id |-> question_id,
          ground_truth |-> truth, model_answer |-> resp.model_answer,
          response_text |-> resp.response_text, correct |-> is_correct]

\* "is_correct = False ... evaluations.append({...})"
Score(custom_id, subject, question_id, truth, resp, is_correct, keeps_reasoning) ==
    [exc |-> "none", skip |-> FALSE,
     evaluation |-> EvaluationDict(custom_id, subject, question_id, truth, resp,
                                   is_correct, keeps_reasoning),
     correct |-> IF is_correct THEN 1 ELSE 0,
     total |-> IF CountsTotal(truth) THEN 1 ELSE 0,
     input |-> resp.input,
     output |-> resp.output]

\* the ground-truth lookup and the use of the vendor's response
ScoreRecord(custom_id, subject, question_id, truth, resp, keeps_reasoning) ==
    Score(custom_id, subject, question_id, truth, resp,
          IsCorrect(truth, resp.model_answer), keeps_reasoning)

\* "subject, question_id = custom_id.split("_", 1)": parts is the list split returns
EvaluateRecord(custom_id, parts, gt, resp, keeps_reasoning) ==
    IF Len(parts) # 2 THEN Raises("ValueError")
    ELSE ScoreRecord(custom_id, parts[1], parts[2], Lookup(gt, parts[1], parts[2]),
                     resp, keeps_reasoning)

OK_STATUS == 200

\* evaluate_openai_results: the response of a record
OpenAIResponse(result) ==
    IF result.status_code = OK_STATUS
    THEN IF result.choices # <<>>
         THEN Answered(result.choices[1], extract_answer_and_reasoning(result.choices[1]),
                       Get0(result.prompt_tokens), Get0(result.completion_tokens))
         ELSE Unanswered(<<>>)
    ELSE Unanswered(ErrorText(StatusStr(result.status_code)))

\* evaluate_openai_results, the body of "for result in results"
OpenAIIteration(result, gt) ==
    IF result.custom_id = NoneStr THEN Raises("AttributeError")
    ELSE EvaluateRecord(result.custom_id, SplitAtFirst(result.custom_id), gt,
                        OpenAIResponse(result), FALSE)

\* the concatenation of the text of the blocks of type "text"
RECURSIVE ClaudeText(_)
ClaudeText(content) ==
    IF content = <<>> THEN <<>>
    ELSE (IF Head(content).type = "text"
          THEN (IF Head(content).text = NoneStr THEN <<>> ELSE Head(content).text)
          ELSE <<>>) \o ClaudeText(Tail(content))

\* str() of a result type
TypeStr(type) ==
    CASE type = "errored"  -> <<"e", "r", "r", "o", "r", "e", "d">>
      [] type = "expired"  -> <<"e", "x", "p", "i", "r", "e", "d">>
      [] type = "canceled" -> <<"c", "a", "n", "c", "e", "l", "e", "d">>
      [] OTHER             -> W_None

\* evaluate_claude_results: the response of a record
ClaudeResponse(result) ==
    IF result.type = "succeeded"
    THEN Answered(ClaudeText(result.content),
                  extract_answer_and_reasoning(ClaudeText(result.content)),
                  Get0(result.input_tokens), Get0(result.output_tokens))
    ELSE Unanswered(ErrorText(TypeStr(result.type)))

\* evaluate_claude_results, the body of "for result in results"
ClaudeIteration(result, gt) ==
    IF result.custom_id = NoneStr THEN Raises("AttributeError")
    ELSE EvaluateRecord(result.custom_id, SplitAtFirst(result.custom_id), gt,
                        ClaudeResponse(result), TRUE)

\* result.get("key") or result.get("custom_id") or result.get("metadata", {}).get("custom_id")
GeminiCustomId(result) ==
    IF Truthy(result.key) THEN result.key
    ELSE IF Truthy(result.custom_id) THEN result.custom_id
    ELSE result.metadata_custom_id

\* the concatenation of part.get("text", "") over the parts
RECURSIVE GeminiText(_)
GeminiText(parts) ==
    IF parts = <<>> THEN <<>>
    ELSE (IF Head(parts) = NoneStr THEN <<>> ELSE Head(parts)) \o GeminiText(Tail(parts))

W_NoResponse == <<"N", "o", " ", "r", "e", "s", "p", "o", "n", "s", "e">>

\* evaluate_gemini_results: the response of a record
\* "total_output_tokens += usage.get("candidatesTokenCount", 0)" and
\* "total_output_tokens += thinking_tokens"
GeminiOutputTokensVisibleOnly(result) == Get0(result.candidatesTokenCount)
GeminiOutputTokens(result) ==
    Get0(result.candidatesTokenCount) + Get0(result.thoughtsTokenCount)

\* evaluate_gemini_results: the response of a record
GeminiResponse(result) ==
    IF result.has_error THEN Unanswered(ErrorText(result.error))
    ELSE IF result.candidates # <<>>
         THEN Answered(GeminiText(result.candidates[1]),
                       extract_answer_and_reasoning(GeminiText(result.candidates[1])),
                       Get0(result.promptTokenCount), GeminiOutputTokens(result))
         ELSE Unanswered(W_NoResponse)

\* "if not custom_id: ... continue"
GeminiSkipNever(custom_id) == FALSE
GeminiSkip(custom_id) == ~Truthy(custom_id)

\* evaluate_gemini_results, the body of "for result in results"
GeminiIteration(result, gt) ==
    IF GeminiSkip(GeminiCustomId(result)) THEN Skips
    ELSE IF GeminiCustomId(result) = NoneStr THEN Raises("AttributeError")
    ELSE EvaluateRecord(GeminiCustomId(result), SplitAtFirst(GeminiCustomId(result)), gt,
                        GeminiResponse(result), TRUE)

(***************************************************************************)
(* calculate_per_subject_accuracy.                                         *)
(***************************************************************************)
\* the positions of a list of evaluations
Indices(evs) == 1..Len(evs)

PerSubjectCountAll(evs) ==
    [s \in {evs[i].subject : i \in 1..Len(evs)} |->
        LET InS(e) == e.subject = s
            Right(e) == e.subject = s /\ e.correct
            t == Cardinality({i \in Indices(evs) : InS(evs[i])})
            c == Cardinality({i \in Indices(evs) : Right(evs[i])})
        IN  [correct |-> c, total |-> t, accuracy |-> Accuracy(c, t)]]
calculate_per_subject_accuracy(evs) ==
    [s \in {evs[i].subject : i \in 1..Len(evs)} |->
        LET Counted(e) == e.subject = s /\ TruthyAnswer(e.ground_truth)
            Right(e) == e.subject = s /\ TruthyAnswer(e.ground_truth) /\ e.correct
            t == Cardinality({i \in Indices(evs) : Counted(evs[i])})
            c == Cardinality({i \in Indices(evs) : Right(evs[i])})
        IN  [correct |-> c, total |-> t,
             accuracy |-> IF t > 0 THEN [num |-> c, den |-> t] ELSE [num |-> 0, den |-> 1]]]

(***************************************************************************)
(* calculate_cost and the price table of config.py. Prices are dollars per *)
(* million tokens; every price of the table is a whole number of eighths   *)
(* of a dollar (0.625 = 5/8), so a price is held as its number of eighths  *)
(* and a cost as the exact fraction num/den of a dollar. None is the cost  *)
(* with none = TRUE, and Absent is the price None.                         *)
(***************************************************************************)
Dollars(whole, eighths) == whole * 8 + eighths

OPENAI_MODEL == "gpt-5-2025-08-07"
CLAUDE_MODEL == "claude-sonnet-4-5"
GEMINI_MODEL == "gemini-2.5-flash"

PRICING ==
    [m \in {"chatgpt-5", "claude-sonnet-4-5", "gemini-3-pro"} |->
        CASE m = "chatgpt-5"         -> [input |-> Dollars(0, 5), output |-> Dollars(5, 0)]
          [] m = "claude-sonnet-4-5" -> [input |-> Dollars(2, 4), output |-> Dollars(12, 4)]
          [] m = "gemini-3-pro"      -> [input |-> Dollars(1, 0), output |-> Dollars(6, 0)]]

MILLION == 1000000

\* a lookup that falls back from a vendor's model to the vendor's priced model
PricingGetByFamily(table, m) ==
    IF m \in DOMAIN table THEN table[m]
    ELSE IF m = OPENAI_MODEL /\ "chatgpt-5" \in DOMAIN table THEN table["chatgpt-5"]
    ELSE IF m = GEMINI_MODEL /\ "gemini-3-pro" \in DOMAIN table THEN table["gemini-3-pro"]
    ELSE <<>>

\* PRICING.get(model): the entry, or the empty function for None
PricingGet(table, m) == IF m \in DOMAIN table THEN table[m] ELSE <<>>

\* "not pricing or pricing["input"] is None or pricing["output"] is None"
UnpricedOrFree(pricing) ==
    \/ DOMAIN pricing = {}
    \/ pricing.input \in {Absent, 0}
    \/ pricing.output \in {Absent, 0}
Unpriced(pricing) ==
    \/ DOMAIN pricing = {}
    \/ pricing.input = Absent
    \/ pricing.output = Absent

NoCost == [none |-> TRUE, num |-> 0, den |-> 1]

\* (input_tokens * pricing["input"] / 1_000_000) + (output_tokens * pricing["output"] / 1_000_000)
CostOfInputOnly(pricing, in, outp) ==
    [none |-> FALSE, num |-> in * pricing.input, den |-> Dollars(1, 0) * MILLION]
CostOf(pricing, in, outp) ==
    [none |-> FALSE,
     num |-> in * pricing.input + outp * pricing.output,
     den |-> Dollars(1, 0) * MILLION]

CostFor(pricing, in, outp) ==
    IF Unpriced(pricing) THEN NoCost ELSE CostOf(pricing, in, outp)

calculate_cost(table, m, in, outp) == CostFor(PricingGet(table, m), in, outp)

(***************************************************************************)
(* Inputs of calculate_cost: the models the benchmark runs and the models  *)
(* the table prices; token counts up to MaxTokens, and a million; the      *)
(* table of config.py, and that table with the entry of one model replaced *)
(* by an empty entry or by prices that are None, zero or set.              *)
(***************************************************************************)
ModelNames == DOMAIN PRICING \cup {OPENAI_MODEL, CLAUDE_MODEL, GEMINI_MODEL}
TokenCounts == 0..MaxTokens \cup {MILLION}
PriceValues == {Absent, 0, Dollars(2, 4)}
PriceEntries == {<<>>} \cup {[input |-> p, output |-> q] : p, q \in PriceValues}
PriceTables == {PRICING} \cup {[PRICING EXCEPT ![CLAUDE_MODEL] = e] : e \in PriceEntries}

(***************************************************************************)
(* wait_for_completion of the three batch services. A poll reads the job   *)
(* status from the vendor; the loop returns True or False on the statuses  *)
(* it names and sleeps poll_interval seconds on every other status.        *)
(***************************************************************************)
POLL_INTERVAL == 60
MAX_WAIT_TIME == 86400

\* OpenAIBatchService.wait_for_completion, the body of "while True"
OpenAIWaitOn(s) ==
    IF s = "completed" THEN "True"
    ELSE IF s \in {"failed", "expired", "cancelled"} THEN "False"
    ELSE "sleep"

\* ClaudeBatchService.wait_for_completion, the body of "while True"
ClaudeWaitOn(s) ==
    IF s = "ended" THEN "True"
    ELSE IF s \in {"canceling", "canceled"} THEN "False"
    ELSE "sleep"

\* GeminiBatchService.wait_for_completion, the body of "while True"
GeminiWaitOn(s) ==
    IF s = "JOB_STATE_SUCCEEDED" THEN "True"
    ELSE IF s \in {"JOB_STATE_FAILED", "JOB_STATE_CANCELLED", "JOB_STATE_EXPIRED"}
    THEN "False"
    ELSE "sleep"

WaitOn(v, s) ==
    CASE v = "openai" -> OpenAIWaitOn(s)
      [] v = "claude" -> ClaudeWaitOn(s)
      [] v = "gemini" -> GeminiWaitOn(s)

\* the statuses a vendor reports for a batch job: those the service names,
\* and the vendor's statuses of a job that is still being processed
JobStatuses(v) ==
    CASE v = "openai" -> {"validating", "in_progress", "finalizing", "cancelling",
                          "completed", "failed", "expired", "cancelled"}
      [] v = "claude" -> {"in_progress", "canceling", "canceled", "ended"}
      [] v = "gemini" -> {"JOB_STATE_PENDING", "JOB_STATE_RUNNING", "JOB_STATE_SUCCEEDED",
                          "JOB_STATE_FAILED", "JOB_STATE_CANCELLED", "JOB_STATE_EXPIRED"}

NoBatch == "None"

\* "if not self.batch_id" ("if not self.batch_name" for Gemini)
NotSubmittedNever(id) == FALSE
NotSubmitted(id) == id = NoBatch

\* download_results: "if batch.status != "completed": raise ValueError" for OpenAI,
\* "if batch.state != "JOB_STATE_SUCCEEDED"" for Gemini, no such test for Claude
DownloadRefuses(v, s) ==
    CASE v = "openai" -> s # "completed"
      [] v = "claude" -> FALSE
      [] v = "gemini" -> s # "JOB_STATE_SUCCEEDED"

\* the methods of a service that ask the vendor about the job
ServiceOps == {"check_status", "wait_for_completion", "download_results", "get_metrics"}
BatchIds == {NoBatch, "batch_1"}

(***************************************************************************)
(* Inputs of the evaluate calls. A case is what a vendor reports for one   *)
(* request; each vendor's record of it has that vendor's shape.            *)
(***************************************************************************)
ID_t1 == <<"t", "_", "1">>
ID_t2 == <<"t", "_", "2">>
ID_m == <<"m", "_", "1", "_", "a">>
ID_u == <<"u", "_", "1">>
ID_flat == <<"t">>

\* the subject and question id of the questions behind the ids above
QuestionKeys == {<<<<"t">>, <<"1">>>>, <<<<"t">>, <<"2">>>>,
                 <<<<"m">>, <<"1", "_", "a">>>>, <<<<"u">>, <<"1">>>>}

\* answers.json: subject -> question id -> letter
GroundTruths ==
    { (<<"t">> :> (<<"1">> :> "B" @@ <<"2">> :> "c"))
      @@ (<<"m">> :> (<<"1", "_", "a">> :> "D")) }

R_answerB == <<K_answer, <<"B">>>>
R_c == <<K_c>>
R_x == <<K_x>>

Case(id, slot, ok, answered, frags, in, outp, think) ==
    [id |-> id, slot |-> slot, ok |-> ok, answered |-> answered, frags |-> frags,
     input |-> in, output |-> outp, thinking |-> think]

Cases ==
    { Case(ID_t1, "key", TRUE, TRUE, R_answerB, 3, 2, 1),            \* right
      Case(ID_t1, "key", TRUE, TRUE, R_c, Absent, Absent, Absent),   \* wrong
      Case(ID_t2, "custom_id", TRUE, TRUE, R_c, 3, Absent, 1),       \* right, ignoring case
      Case(ID_t2, "key", TRUE, TRUE, R_x, 1, 1, Absent),             \* no letter in the response
      Case(ID_m, "key", TRUE, TRUE, R_answerB, 1, 1, Absent),        \* wrong
      Case(ID_u, "metadata", TRUE, TRUE, R_answerB, 1, 1, 1),        \* no ground truth
      Case(ID_t1, "key", FALSE, FALSE, <<>>, 1, 1, 1),               \* errored
      Case(ID_u, "key", FALSE, FALSE, <<>>, Absent, Absent, Absent), \* errored, no ground truth
      Case(ID_t1, "key", TRUE, FALSE, <<>>, 1, 1, 1),                \* no choice / candidate
      Case(ID_t1, "key", TRUE, TRUE, <<NoneStr>>, 1, 1, 1),          \* text missing
      Case(NoneStr, "key", TRUE, TRUE, R_c, 1, 1, Absent),           \* no custom_id
      Case(ID_flat, "key", TRUE, TRUE, R_c, 1, 1, 1) }               \* custom_id without "_"

RECURSIVE Concat(_)
Concat(frags) == IF frags = <<>> THEN <<>> ELSE Head(frags) \o Concat(Tail(frags))

OpenAIRecord(c) ==
    [custom_id |-> c.id,
     status_code |-> IF c.ok THEN OK_STATUS ELSE 500,
     choices |-> IF ~c.answered THEN <<>>
                 ELSE IF c.frags = <<NoneStr>> THEN <<NoneStr>> ELSE <<Concat(c.frags)>>,
     prompt_tokens |-> c.input, completion_tokens |-> c.output]

ClaudeRecord(c) ==
    [custom_id |-> c.id,
     type |-> IF c.ok THEN "succeeded" ELSE "errored",
     content |-> IF ~c.answered THEN <<>>
                 ELSE <<[type |-> "thinking", text |-> K_B]>>
                      \o [i \in 1..Len(c.frags) |-> [type |-> "text", text |-> c.frags[i]]],
     input_tokens |-> c.input, output_tokens |-> c.output]

W_13 == <<"1", "3">>
GeminiRecord(c) ==
    [key |-> IF c.slot = "key" THEN c.id ELSE NoneStr,
     custom_id |-> IF c.slot = "custom_id" THEN c.id ELSE NoneStr,
     metadata_custom_id |-> IF c.slot = "metadata" THEN c.id ELSE NoneStr,
     has_error |-> ~c.ok,
     error |-> IF c.ok THEN NoneStr ELSE W_13,
     candidates |-> IF c.answered THEN <<c.frags>> ELSE <<>>,
     promptTokenCount |-> c.input, candidatesTokenCount |-> c.output,
     thoughtsTokenCount |-> c.thinking]

Vendors == {"openai", "claude", "gemini"}
\* a line of the result file without its "response" / "result" object
OpenAIBare ==
    [custom_id |-> ID_t1, status_code |-> Absent, choices |-> <<>>,
     prompt_tokens |-> Absent, completion_tokens |-> Absent]
ClaudeBare ==
    [custom_id |-> ID_t1, type |-> "None", content |-> <<>>,
     input_tokens |-> Absent, output_tokens |-> Absent]

VendorRecords(v) ==
    CASE v = "openai" -> {OpenAIRecord(c) : c \in Cases} \cup {OpenAIBare}
      [] v = "claude" -> {ClaudeRecord(c) : c \in Cases} \cup {ClaudeBare}
      [] v = "gemini" -> {GeminiRecord(c) : c \in Cases}
ResultLists(v) == UNION {[1..n -> VendorRecords(v)] : n \in 0..MaxResults}

(***************************************************************************)
(* A whole call of evaluate_*_results, as run_*_benchmark makes it: the    *)
(* loop folded over the result list. The tally holds the locals of the     *)
(* call, and in exc the exception that ended it.                           *)
(***************************************************************************)
IterationOf(v, result, gt) ==
    CASE v = "openai" -> OpenAIIteration(result, gt)
      [] v = "claude" -> ClaudeIteration(result, gt)
      [] v = "gemini" -> GeminiIteration(result, gt)

\* locals that keep the counters an earlier call left behind
NoTallyCarried ==
    [exc |-> "none", evaluations |-> <<>>, correct |-> correct, total |-> total,
     input |-> total_input_tokens, output |-> total_output_tokens]

\* the locals at the top of evaluate_*_results
NoTally ==
    [exc |-> "none", evaluations |-> <<>>, correct |-> 0, total |-> 0,
     input |-> 0, output |-> 0]

Tally(acc, it) ==
    IF it.exc # "none" THEN [acc EXCEPT !.exc = it.exc]
    ELSE [exc |-> "none",
          evaluations |-> IF it.skip THEN acc.evaluations
                          ELSE Append(acc.evaluations, it.evaluation),
          correct |-> acc.correct + it.correct,
          total |-> acc.total + it.total,
          input |-> acc.input + it.input,
          output |-> acc.output + it.output]

RECURSIVE EvaluateLoop(_, _, _, _)
EvaluateLoop(v, rs, gt, acc) ==
    IF rs = <<>> \/ acc.exc # "none" THEN acc
    ELSE EvaluateLoop(v, Tail(rs), gt, Tally(acc, IterationOf(v, Head(rs), gt)))

\* the dict the call returns
EvaluationDictOf(acc) ==
    [evaluations |-> acc.evaluations,
     accuracy |-> Accuracy(acc.correct, acc.total),
     correct |-> acc.correct,
     total |-> acc.total,
     tokens |-> [input |-> acc.input, output |-> acc.output,
                 total |-> acc.input + acc.output]]

(***************************************************************************)
(* benchmark.py: main runs the selected vendors one after the other and    *)
(* then writes the reports; run_*_benchmark is submit, wait, download,     *)
(* evaluate, metrics, cost, per-subject breakdown, inside one try/except.  *)
(***************************************************************************)
\* the key of a vendor in main's dict results
DisplayName(v) ==
    CASE v = "openai" -> "OpenAI"
      [] v = "claude" -> "Claude"
      [] v = "gemini" -> "Gemini"

\* the model name run_*_benchmark hands to calculate_cost
ModelOf(v) ==
    CASE v = "openai" -> OPENAI_MODEL
      [] v = "claude" -> CLAUDE_MODEL
      [] v = "gemini" -> GEMINI_MODEL

\* "models": the vendors selected by --all, --openai, --claude, --gemini
ModelSelections ==
    {<<"openai">>, <<"claude">>, <<"gemini">>, <<"openai", "claude">>,
     <<"openai", "gemini">>, <<"claude", "gemini">>, <<"openai", "claude", "gemini">>}

\* what download_results hands to the evaluator in the runs of the model
C_right == Case(ID_t1, "key", TRUE, TRUE, R_answerB, 3, 2, 1)
C_errored == Case(ID_t1, "key", FALSE, FALSE, <<>>, 1, 1, 1)
C_noid == Case(NoneStr, "key", TRUE, TRUE, R_c, 1, 1, 1)
C_large == Case(ID_t1, "key", TRUE, TRUE, R_c, MILLION, 2, 1)
RunCases == {C_right, C_errored, C_noid, C_large}
VendorRecord(v, c) ==
    CASE v = "openai" -> OpenAIRecord(c)
      [] v = "claude" -> ClaudeRecord(c)
      [] v = "gemini" -> GeminiRecord(c)
RunResultLists(v) == {<<>>} \cup {<<VendorRecord(v, c)>> : c \in RunCases}

\* the exceptions a call to the vendor's service raises in the model
ServiceErrors == {"APIError"}

\* "if not success:"
WaitFailedNever(returned) == FALSE
WaitFailed(returned) == returned = "False"

\* "return {"status": "failed"}" and "return {"status": "error", "error": str(e)}"
FailedEntry == [status |-> "failed"]
ErrorEntry(exc) == [status |-> "error", error |-> exc]

\* "except Exception as e": what run_*_benchmark returns when a step raises
ExceptDropsRun(exc) == [caught |-> FALSE, entry |-> ErrorEntry(exc)]
Except(exc) == [caught |-> TRUE, entry |-> ErrorEntry(exc)]

\* service.get_metrics()
GetMetrics(v, id, st) ==
    IF v = "gemini" THEN [batch_name |-> id, status |-> st]
    ELSE [batch_id |-> id, status |-> st]

\* "if cost is not None: metrics['cost'] = cost"
WithCostOrZero(m, c) ==
    [k \in DOMAIN m \cup {"cost"} |->
        IF k = "cost" THEN (IF c.none THEN [c EXCEPT !.none = FALSE] ELSE c) ELSE m[k]]
WithCost(m, c) ==
    IF c.none THEN m
    ELSE [k \in DOMAIN m \cup {"cost"} |-> IF k = "cost" THEN c ELSE m[k]]

\* dict.get(key, default)
GetOr(d, key, default) == IF key \in DOMAIN d THEN d[key] ELSE default

\* f"{cost:.4f}": the cost as a number of ten-thousandths of a dollar,
\* rounded half to even
CostText(c) ==
    LET unit == c.den \div 10000
        q == c.num \div unit
        r == c.num % unit
    IN  IF 2 * r > unit \/ (2 * r = unit /\ q % 2 = 1) THEN q + 1 ELSE q

\* generate_summary_csv: the row of one model
CsvRow(name, e) ==
    IF "cost" \in DOMAIN GetOr(e, "metrics", <<>>)
    THEN [Model |-> name,
          Correct |-> GetOr(GetOr(e, "evaluation", <<>>), "correct", 0),
          Total |-> GetOr(GetOr(e, "evaluation", <<>>), "total", 0),
          Cost |-> CostText(e.metrics.cost)]
    ELSE [Model |-> name,
          Correct |-> GetOr(GetOr(e, "evaluation", <<>>), "correct", 0),
          Total |-> GetOr(GetOr(e, "evaluation", <<>>), "total", 0)]

\* generate_text_report: the section of one model
TextSection(name, e) ==
    IF "cost" \in DOMAIN GetOr(e, "metrics", <<>>)
    THEN [Model |-> name,
          InputTokens |-> GetOr(GetOr(GetOr(e, "evaluation", <<>>), "tokens", <<>>), "input", 0),
          OutputTokens |-> GetOr(GetOr(GetOr(e, "evaluation", <<>>), "tokens", <<>>), "output", 0),
          Cost |-> CostText(e.metrics.cost)]
    ELSE [Model |-> name,
          InputTokens |-> GetOr(GetOr(GetOr(e, "evaluation", <<>>), "tokens", <<>>), "input", 0),
          OutputTokens |-> GetOr(GetOr(GetOr(e, "evaluation", <<>>), "tokens", <<>>), "output", 0)]

\* the vendors of the selection that have an entry in results, in run order
RECURSIVE Ran(_, _)
Ran(sel, rr) ==
    IF sel = <<>> THEN <<>>
    ELSE (IF DisplayName(Head(sel)) \in DOMAIN rr THEN <<Head(sel)>> ELSE <<>>)
         \o Ran(Tail(sel), rr)

\* generate_all_reports(results)
GenerateAllReports(sel, rr) ==
    [summary_csv |-> [i \in 1..Len(Ran(sel, rr)) |->
                        CsvRow(DisplayName(Ran(sel, rr)[i]), rr[DisplayName(Ran(sel, rr)[i])])],
     text_report |-> [i \in 1..Len(Ran(sel, rr)) |->
                        TextSection(DisplayName(Ran(sel, rr)[i]),
                                    rr[DisplayName(Ran(sel, rr)[i])])]]

(***************************************************************************)
(* The state machine. Three operations are exercised, each from its own    *)
(* initial states: a call of extract_answer_and_reasoning; the round trip  *)
(* of a Question's custom_id through the evaluators' split; a call of one  *)
(* evaluate_*_results followed by calculate_per_subject_accuracy.          *)
(***************************************************************************)
ExtractIdle == text = NoneStr /\ out = NoOut
QuestionIdle == question = NoQuestion /\ parsed = NoParsed
EvaluateIdle ==
    /\ vendor = "none" /\ ground_truth = <<>> /\ results = <<>> /\ idx = 0
    /\ evaluations = <<>> /\ correct = 0 /\ total = 0
    /\ total_input_tokens = 0 /\ total_output_tokens = 0
    /\ ret = <<>> /\ per_subject = <<>>

CostIdle ==
    /\ price_table = PRICING /\ model = "none"
    /\ input_tokens = 0 /\ output_tokens = 0 /\ cost = NoCost
WaitIdle ==
    /\ batch_id = NoBatch /\ status = "none" /\ elapsed = 0 /\ success = "none"
    /\ op = "none" /\ contacted = FALSE
RunIdle == models = <<>> /\ run_results = <<>> /\ metrics = <<>> /\ reports = <<>>

InitExtract ==
    /\ mode = "extract" /\ pc = "call" /\ raised = "none"
    /\ text \in TextInputs /\ out = NoOut
    /\ QuestionIdle /\ EvaluateIdle /\ CostIdle /\ WaitIdle /\ RunIdle

InitQuestion ==
    /\ mode = "question" /\ pc = "constructed" /\ raised = "none"
    /\ \E s \in IdStrings, q \in IdStrings : question = Question(s, q)
    /\ parsed = NoParsed
    /\ ExtractIdle /\ EvaluateIdle /\ CostIdle /\ WaitIdle /\ RunIdle

InitEvaluate ==
    /\ mode = "evaluate" /\ pc = "loop" /\ raised = "none"
    /\ vendor \in Vendors
    /\ ground_truth \in GroundTruths
    /\ results \in ResultLists(vendor)
    /\ idx = 0 /\ evaluations = <<>> /\ correct = 0 /\ total = 0
    /\ total_input_tokens = 0 /\ total_output_tokens = 0
    /\ ret = <<>> /\ per_subject = <<>>
    /\ ExtractIdle /\ QuestionIdle /\ CostIdle /\ WaitIdle /\ RunIdle

InitCost ==
    /\ mode = "cost" /\ pc = "call" /\ raised = "none"
    /\ price_table \in PriceTables
    /\ model \in ModelNames
    /\ input_tokens \in TokenCounts /\ output_tokens \in TokenCounts
    /\ cost = NoCost
    /\ ExtractIdle /\ QuestionIdle /\ EvaluateIdle /\ WaitIdle /\ RunIdle

\* a service, before or after submit_batch, on which one of its methods is called
InitWait ==
    /\ mode = "wait" /\ pc = "call" /\ raised = "none"
    /\ vendor \in Vendors /\ batch_id \in BatchIds
    /\ status = "none" /\ elapsed = 0 /\ success = "none"
    /\ op \in ServiceOps /\ contacted = FALSE
    /\ ground_truth = <<>> /\ results = <<>> /\ idx = 0
    /\ evaluations = <<>> /\ correct = 0 /\ total = 0
    /\ total_input_tokens = 0 /\ total_output_tokens = 0
    /\ ret = <<>> /\ per_subject = <<>>
    /\ ExtractIdle /\ QuestionIdle /\ CostIdle /\ RunIdle

\* main, after the questions and the answer key are loaded
InitRun ==
    /\ mode = "run" /\ pc = "main" /\ raised = "none"
    /\ models \in ModelSelections
    /\ ground_truth \in GroundTruths
    /\ run_results = <<>> /\ metrics = <<>> /\ reports = <<>>
    /\ vendor = "none" /\ results = <<>> /\ idx = 0
    /\ evaluations = <<>> /\ correct = 0 /\ total = 0
    /\ total_input_tokens = 0 /\ total_output_tokens = 0
    /\ ret = <<>> /\ per_subject = <<>>
    /\ ExtractIdle /\ QuestionIdle /\ CostIdle /\ WaitIdle

Init == InitExtract \/ InitQuestion \/ InitEvaluate \/ InitCost \/ InitWait \/ InitRun

\* a call of extract_answer_and_reasoning(text)
Extract ==
    /\ mode = "extract" /\ pc = "call"
    /\ out' = extract_answer_and_reasoning(text)
    /\ pc' = "done"
    /\ UNCHANGED <<mode, text, question, parsed, vendor, ground_truth, results, idx,
                   evaluations, correct, total, total_input_tokens, total_output_tokens,
                   raised, ret, per_subject, costVars, waitVars, runVars>>

\* "subject, question_id = custom_id.split("_", 1)" on the custom_id of a Question
ParseCustomId ==
    /\ mode = "question" /\ pc = "constructed"
    /\ LET parts == SplitAtFirst(question.custom_id)
       IN  IF Len(parts) = 2
           THEN parsed' = parts /\ raised' = "none"
           ELSE parsed' = NoParsed /\ raised' = "ValueError"
    /\ pc' = "done"
    /\ UNCHANGED <<mode, text, out, question, vendor, ground_truth, results, idx,
                   evaluations, correct, total, total_input_tokens, total_output_tokens,
                   ret, per_subject, costVars, waitVars, runVars>>

\* the effect of one loop iteration on the locals of the evaluate call
Iterate(it) ==
    /\ idx' = idx + 1
    /\ IF it.exc # "none"
       THEN /\ pc' = "raised" /\ raised' = it.exc
            /\ UNCHANGED <<evaluations, correct, total,
                           total_input_tokens, total_output_tokens>>
       ELSE /\ UNCHANGED <<pc, raised>>
            /\ evaluations' = IF it.skip THEN evaluations
                              ELSE Append(evaluations, it.evaluation)
            /\ correct' = correct + it.correct
            /\ total' = total + it.total
            /\ total_input_tokens' = total_input_tokens + it.input
            /\ total_output_tokens' = total_output_tokens + it.output
    /\ UNCHANGED <<mode, text, out, question, parsed, vendor, ground_truth, results,
                   ret, per_subject, costVars, waitVars, runVars>>

EvaluateOpenAIStep ==
    /\ mode = "evaluate" /\ vendor = "openai" /\ pc = "loop" /\ idx < Len(results)
    /\ Iterate(OpenAIIteration(results[idx + 1], ground_truth))

EvaluateClaudeStep ==
    /\ mode = "evaluate" /\ vendor = "claude" /\ pc = "loop" /\ idx < Len(results)
    /\ Iterate(ClaudeIteration(results[idx + 1], ground_truth))

EvaluateGeminiStep ==
    /\ mode = "evaluate" /\ vendor = "gemini" /\ pc = "loop" /\ idx < Len(results)
    /\ Iterate(GeminiIteration(results[idx + 1], ground_truth))

\* the return statement of evaluate_*_results
EvaluateReturn ==
    /\ mode = "evaluate" /\ pc = "loop" /\ idx = Len(results)
    /\ ret' = [evaluations |-> evaluations,
               accuracy |-> Accuracy(correct, total),
               correct |-> correct,
               total |-> total,
               tokens |-> [input |-> total_input_tokens,
                           output |-> total_output_tokens,
                           total |-> total_input_tokens + total_output_tokens]]
    /\ pc' = "returned"
    /\ UNCHANGED <<mode, text, out, question, parsed, vendor, ground_truth, results, idx,
                   evaluations, correct, total, total_input_tokens, total_output_tokens,
                   raised, per_subject, costVars, waitVars, runVars>>

\* the same evaluate_*_results is called again on the same evaluator with the
\* same results: its locals are created anew, the caller keeps the earlier dict
EvaluateAgain ==
    /\ mode = "evaluate" /\ pc \in {"returned", "done"}
    /\ idx' = 0 /\ evaluations' = NoTally.evaluations
    /\ correct' = NoTally.correct /\ total' = NoTally.total
    /\ total_input_tokens' = NoTally.input /\ total_output_tokens' = NoTally.output
    /\ pc' = "loop"
    /\ UNCHANGED <<mode, text, out, question, parsed, vendor, ground_truth, results,
                   raised, ret, per_subject, costVars, waitVars, runVars>>

\* calculate_per_subject_accuracy(evaluation['evaluations'])
CalculatePerSubject ==
    /\ mode = "evaluate" /\ pc = "returned"
    /\ per_subject' = calculate_per_subject_accuracy(ret.evaluations)
    /\ pc' = "done"
    /\ UNCHANGED <<mode, text, out, question, parsed, vendor, ground_truth, results, idx,
                   evaluations, correct, total, total_input_tokens, total_output_tokens,
                   raised, ret, costVars, waitVars, runVars>>

\* a call of calculate_cost(model, input_tokens, output_tokens)
CalculateCost ==
    /\ mode = "cost" /\ pc = "call"
    /\ cost' = calculate_cost(price_table, model, input_tokens, output_tokens)
    /\ pc' = "done"
    /\ UNCHANGED <<mode, text, out, question, parsed, vendor, ground_truth, results, idx,
                   evaluations, correct, total, total_input_tokens, total_output_tokens,
                   raised, ret, per_subject, price_table, model, input_tokens,
                   output_tokens, waitVars, runVars>>

\* what wait_for_completion leaves alone
WaitFrame ==
    UNCHANGED <<mode, text, out, question, parsed, vendor, ground_truth, results, idx,
                evaluations, correct, total, total_input_tokens, total_output_tokens,
                ret, per_subject, batch_id, op, costVars, runVars>>

\* wait_for_completion is entered: "if not self.batch_id: raise ValueError"
WaitEnter ==
    /\ mode = "wait" /\ pc = "call" /\ op = "wait_for_completion"
    /\ IF batch_id = NoBatch
       THEN pc' = "raised" /\ raised' = "ValueError"
       ELSE pc' = "polling" /\ raised' = raised
    /\ UNCHANGED <<status, elapsed, success, contacted>>
    /\ WaitFrame

\* one turn of "while True" that observes the status s
PollObserves(s, on) ==
    /\ status' = s /\ contacted' = TRUE
    /\ IF on = "sleep"
       THEN /\ elapsed' = elapsed + POLL_INTERVAL
            /\ UNCHANGED <<pc, success>>
       ELSE /\ success' = on /\ pc' = "returned"
            /\ UNCHANGED elapsed
    /\ UNCHANGED raised
    /\ WaitFrame

\* the model follows the loop for MaxOvertimePolls polls beyond MAX_WAIT_TIME
Polling(v) ==
    /\ mode = "wait" /\ pc = "polling" /\ vendor = v
    /\ elapsed < MAX_WAIT_TIME + MaxOvertimePolls * POLL_INTERVAL

OpenAIPoll ==
    /\ Polling("openai")
    /\ \E s \in JobStatuses("openai") : PollObserves(s, OpenAIWaitOn(s))

ClaudePoll ==
    /\ Polling("claude")
    /\ \E s \in JobStatuses("claude") : PollObserves(s, ClaudeWaitOn(s))

GeminiPoll ==
    /\ Polling("gemini")
    /\ \E s \in JobStatuses("gemini") : PollObserves(s, GeminiWaitOn(s))

\* the status request of a poll raises (the vendor's client fails)
PollRaises ==
    /\ mode = "wait" /\ pc = "polling"
    /\ elapsed < MAX_WAIT_TIME + MaxOvertimePolls * POLL_INTERVAL
    /\ pc' = "raised" /\ raised' = "APIError"
    /\ contacted' = TRUE
    /\ UNCHANGED <<status, elapsed, success>>
    /\ WaitFrame

\* what check_status, download_results and get_metrics leave alone
ServiceFrame ==
    UNCHANGED <<mode, text, out, question, parsed, vendor, ground_truth, idx, evaluations,
                correct, total, total_input_tokens, total_output_tokens, ret, per_subject,
                batch_id, elapsed, success, op, costVars, models, run_results, reports>>

\* check_status()
CheckStatus ==
    /\ mode = "wait" /\ pc = "call" /\ op = "check_status"
    /\ IF NotSubmitted(batch_id)
       THEN status' = "not_submitted" /\ UNCHANGED contacted
       ELSE contacted' = TRUE /\ status' \in JobStatuses(vendor)
    /\ pc' = "returned"
    /\ UNCHANGED <<raised, results, metrics>>
    /\ ServiceFrame

\* download_results()
DownloadResults ==
    /\ mode = "wait" /\ pc = "call" /\ op = "download_results"
    /\ IF NotSubmitted(batch_id)
       THEN /\ pc' = "raised" /\ raised' = "ValueError"
            /\ UNCHANGED <<status, contacted, results>>
       ELSE /\ contacted' = TRUE
            /\ \E s \in JobStatuses(vendor) :
                  /\ status' = IF vendor = "claude" THEN status ELSE s
                  /\ IF DownloadRefuses(vendor, s)
                     THEN pc' = "raised" /\ raised' = "ValueError" /\ UNCHANGED results
                     ELSE \/ /\ results' \in RunResultLists(vendor)
                             /\ pc' = "returned" /\ UNCHANGED raised
                          \/ /\ vendor = "openai"     \* "if not batch.output_file_id"
                             /\ pc' = "raised" /\ raised' = "ValueError"
                             /\ UNCHANGED results
    /\ UNCHANGED metrics
    /\ ServiceFrame

\* get_metrics()
GetMetricsCall ==
    /\ mode = "wait" /\ pc = "call" /\ op = "get_metrics"
    /\ IF NotSubmitted(batch_id)
       THEN metrics' = <<>> /\ UNCHANGED <<status, contacted>>
       ELSE /\ contacted' = TRUE
            /\ \E s \in JobStatuses(vendor) :
                  status' = s /\ metrics' = GetMetrics(vendor, batch_id, s)
    /\ pc' = "returned"
    /\ UNCHANGED <<raised, results>>
    /\ ServiceFrame

\* what a run of main leaves alone
RunFrame ==
    UNCHANGED <<mode, text, out, question, parsed, ground_truth, idx, evaluations,
                correct, total, total_input_tokens, total_output_tokens, price_table,
                elapsed, op, contacted, models>>

\* the selected vendors main has not run yet, in the order main runs them
RECURSIVE Pending(_, _)
Pending(sel, rr) ==
    IF sel = <<>> THEN <<>>
    ELSE (IF DisplayName(Head(sel)) \in DOMAIN rr THEN <<>> ELSE <<Head(sel)>>)
         \o Pending(Tail(sel), rr)

\* "results[...] = run_*_benchmark(questions, evaluator)": the call is entered
MainNext ==
    /\ mode = "run" /\ pc = "main" /\ Pending(models, run_results) # <<>>
    /\ vendor' = Head(Pending(models, run_results))
    /\ pc' = "submit" /\ raised' = "none"
    /\ results' = <<>> /\ ret' = <<>> /\ per_subject' = <<>> /\ metrics' = <<>>
    /\ model' = "none" /\ input_tokens' = 0 /\ output_tokens' = 0 /\ cost' = NoCost
    /\ batch_id' = NoBatch /\ status' = "none" /\ success' = "none"
    /\ UNCHANGED <<run_results, reports>>
    /\ RunFrame

\* run_*_benchmark returns entry, and main stores it under the vendor's name
Returns(entry) ==
    /\ pc' = "main"
    /\ run_results' = [k \in DOMAIN run_results \cup {DisplayName(vendor)} |->
                          IF k = DisplayName(vendor) THEN entry ELSE run_results[k]]

\* a step of run_*_benchmark raises exc
Raising(exc) ==
    /\ raised' = exc
    /\ IF Except(exc).caught
       THEN Returns(Except(exc).entry)
       ELSE pc' = "crashed" /\ UNCHANGED run_results

\* the service is constructed and submit_batch(questions) is called
RunSubmit ==
    /\ mode = "run" /\ pc = "submit"
    /\ \/ /\ batch_id' = "batch_1" /\ pc' = "wait"
          /\ UNCHANGED <<raised, run_results>>
       \/ /\ \E exc \in ServiceErrors : Raising(exc)
          /\ UNCHANGED batch_id
    /\ UNCHANGED <<vendor, results, ret, per_subject, model,
                 input_tokens, output_tokens, cost, status, success, metrics,
                 reports>>
    /\ RunFrame

\* wait_for_completion() returns on the status s, or raises
RunWait ==
    /\ mode = "run" /\ pc = "wait"
    /\ \/ \E s \in JobStatuses(vendor) :
            /\ WaitOn(vendor, s) # "sleep"
            /\ status' = s /\ success' = WaitOn(vendor, s)
            /\ IF WaitFailed(WaitOn(vendor, s))
               THEN Returns(FailedEntry)
               ELSE pc' = "download" /\ UNCHANGED run_results
            /\ UNCHANGED raised
       \/ /\ \E exc \in ServiceErrors : Raising(exc)
          /\ UNCHANGED <<status, success>>
    /\ UNCHANGED <<vendor, results, ret, per_subject, model,
                 input_tokens, output_tokens, cost, batch_id, metrics,
                 reports>>
    /\ RunFrame

\* download_results()
RunDownload ==
    /\ mode = "run" /\ pc = "download"
    /\ \/ /\ results' \in RunResultLists(vendor) /\ pc' = "evaluate"
          /\ UNCHANGED <<raised, run_results>>
       \/ /\ \E exc \in ServiceErrors : Raising(exc)
          /\ UNCHANGED results
    /\ UNCHANGED <<vendor, ret, per_subject, model, input_tokens,
                 output_tokens, cost, batch_id, status, success, metrics,
                 reports>>
    /\ RunFrame

\* evaluator.evaluate_*_results(results)
RunEvaluate ==
    /\ mode = "run" /\ pc = "evaluate"
    /\ LET acc == EvaluateLoop(vendor, results, ground_truth, NoTally)
       IN  IF acc.exc # "none"
           THEN Raising(acc.exc) /\ UNCHANGED ret
           ELSE /\ ret' = EvaluationDictOf(acc) /\ pc' = "metrics"
                /\ UNCHANGED <<raised, run_results>>
    /\ UNCHANGED <<vendor, results, per_subject, model,
                 input_tokens, output_tokens, cost, batch_id, status, success,
                 metrics, reports>>
    /\ RunFrame

\* service.get_metrics()
RunMetrics ==
    /\ mode = "run" /\ pc = "metrics"
    /\ \/ /\ metrics' = GetMetrics(vendor, batch_id, status) /\ pc' = "cost"
          /\ UNCHANGED <<raised, run_results>>
       \/ /\ \E exc \in ServiceErrors : Raising(exc)
          /\ UNCHANGED metrics
    /\ UNCHANGED <<vendor, results, ret, per_subject, model,
                 input_tokens, output_tokens, cost, batch_id, status, success,
                 reports>>
    /\ RunFrame

\* "cost = evaluator.calculate_cost(...)" and "if cost is not None: metrics['cost'] = cost"
RunCost ==
    /\ mode = "run" /\ pc = "cost"
    /\ model' = ModelOf(vendor)
    /\ input_tokens' = ret.tokens.input
    /\ output_tokens' = ret.tokens.output
    /\ cost' = calculate_cost(price_table, ModelOf(vendor), ret.tokens.input,
                              ret.tokens.output)
    /\ metrics' = WithCost(metrics, cost')
    /\ pc' = "per_subject"
    /\ UNCHANGED <<raised, vendor, results, ret, per_subject,
                 batch_id, status, success, run_results, reports>>
    /\ RunFrame

\* the per-subject breakdown and the return of the completed run
RunReturn ==
    /\ mode = "run" /\ pc = "per_subject"
    /\ per_subject' = calculate_per_subject_accuracy(ret.evaluations)
    /\ Returns([status |-> "completed", model |-> ModelOf(vendor), evaluation |-> ret,
                metrics |-> metrics, per_subject |-> per_subject'])
    /\ UNCHANGED <<raised, vendor, results, ret, model,
                 input_tokens, output_tokens, cost, batch_id, status, success,
                 metrics, reports>>
    /\ RunFrame

\* "report_gen.generate_all_reports(results)", after the last selected vendor
GenerateReports ==
    /\ mode = "run" /\ pc = "main" /\ Pending(models, run_results) = <<>>
    /\ reports' = GenerateAllReports(models, run_results)
    /\ pc' = "done"
    /\ UNCHANGED <<raised, vendor, results, ret, per_subject, model,
                 input_tokens, output_tokens, cost, batch_id, status, success,
                 run_results, metrics>>
    /\ RunFrame

Next ==
    \/ Extract
    \/ ParseCustomId
    \/ EvaluateOpenAIStep
    \/ EvaluateClaudeStep
    \/ EvaluateGeminiStep
    \/ EvaluateReturn
    \/ EvaluateAgain
    \/ CalculatePerSubject
    \/ CalculateCost
    \/ WaitEnter
    \/ OpenAIPoll
    \/ ClaudePoll
    \/ GeminiPoll
    \/ PollRaises
    \/ CheckStatus
    \/ DownloadResults
    \/ GetMetricsCall
    \/ MainNext
    \/ RunSubmit
    \/ RunWait
    \/ RunDownload
    \/ RunEvaluate
    \/ RunMetrics
    \/ RunCost
    \/ RunReturn
    \/ GenerateReports

Spec == Init /\ [][Next]_vars

(***************************************************************************)
(* Notions the properties below are stated with.                           *)
(***************************************************************************)
Extracted == mode = "extract" /\ pc = "done"
Returned == mode = "evaluate" /\ pc \in {"returned", "done"}

\* the custom_id a vendor's record carries
RecordId(v, r) == IF v = "gemini" THEN GeminiCustomId(r) ELSE r.custom_id

\* the id is present and has the form subject_questionid
Resolvable(id) == Truthy(id) /\ "_" \in Range(id)

\* the record is marked errored in its vendor's vocabulary
Errored(v, r) ==
    CASE v = "openai" -> r.status_code # 200
      [] v = "claude" -> r.type # "succeeded"
      [] v = "gemini" -> r.has_error

\* the ground truth of the question a resolvable id names
TruthOf(id) ==
    LET cut == MinOf({i \in 1..Len(id) : id[i] = "_"})
    IN  Lookup(ground_truth, SubSeq(id, 1, cut - 1), SubSeq(id, cut + 1, Len(id)))

\* the loop is about to process the record Current
Processing == mode = "evaluate" /\ pc = "loop" /\ idx < Len(results)
Current == results[idx + 1]
CurrentId == RecordId(vendor, Current)

LastOf(seq) == seq[Len(seq)]

RECURSIVE SumOver(_, _)
SumOver(f, S) ==
    IF S = {} THEN 0
    ELSE LET x == CHOOSE y \in S : TRUE IN f[x] + SumOver(f, S \ {x})

\* the rules that match the upper-cased, trimmed text
MatchingRules(t) ==
    LET u == Strip(Upper(t)) IN {k \in 1..8 : RuleMatch(k, u) # NoMatch}

(***************************************************************************)
(* C1. The extractor tries its eight rules in the order boxed, label,      *)
(* final answer, connective, trailing letter, option label, last           *)
(* standalone letter, scan from the end, and returns the letter of the     *)
(* first rule that matches: the rule that returns is the least-numbered    *)
(* matching rule and the answer is that rule's letter. The text            *)
(* "Option B is tempting. C" yields C by rule 5, not B by rule 6.          *)
(***************************************************************************)
C1_FirstMatchingRuleWins ==
    (Extracted /\ Truthy(text)) =>
        LET matching == MatchingRules(text)
        IN  /\ matching = {} => out.answer = NoAnswer
            /\ matching # {} =>
                  /\ out.rule = MinOf(matching)
                  /\ out.answer = RuleMatch(out.rule, Strip(Upper(text))).answer
            /\ text = X_option => out.answer = "C"

C1_Witness ==
    /\ Extracted /\ text = X_option
    /\ out.answer = "C" /\ out.rule = 5
    /\ RuleMatch(6, Strip(Upper(text))).answer = "B"

(***************************************************************************)
(* C2. In the result of each vendor's evaluate call, total is the number   *)
(* of evaluated records whose (subject, question_id) has ground truth, an  *)
(* unanswered record included, and correct is the number of those whose    *)
(* extracted answer is present and equals the ground truth ignoring case;  *)
(* accuracy is their quotient (one right and one unanswered record with     *)
(* ground truth give total 2, correct 1, accuracy 1/2).                    *)
(***************************************************************************)
HasTruth(e) == TruthyAnswer(Lookup(ground_truth, e.subject, e.question_id))
AnsweredRight(e) ==
    /\ HasTruth(e) /\ TruthyAnswer(e.model_answer)
    /\ Upper(<<e.model_answer>>) = Upper(<<Lookup(ground_truth, e.subject, e.question_id)>>)

C2_TotalAndCorrectCounts ==
    Returned =>
        /\ ret.total = Cardinality({i \in Indices(ret.evaluations) : HasTruth(ret.evaluations[i])})
        /\ ret.correct = Cardinality({i \in Indices(ret.evaluations) : AnsweredRight(ret.evaluations[i])})
        /\ ret.total > 0 => ret.accuracy.num * ret.total = ret.correct * ret.accuracy.den

C2_Witness ==
    /\ Returned /\ Len(ret.evaluations) = 2
    /\ ret.total = 2 /\ ret.correct = 1
    /\ ret.accuracy.num * 2 = ret.accuracy.den
    /\ ret.evaluations[1].ground_truth = "c" /\ ret.evaluations[1].model_answer = "C"
    /\ HasTruth(ret.evaluations[2]) /\ ret.evaluations[2].model_answer = NoAnswer

(***************************************************************************)
(* C3. After every record a vendor's fold has processed, and in the        *)
(* returned result, 0 <= correct <= total <= len(evaluations); processing  *)
(* a record that has no ground truth appends an evaluation and changes     *)
(* neither correct nor total.                                              *)
(***************************************************************************)
C3_Bounds ==
    mode = "evaluate" =>
        /\ 0 <= correct /\ correct <= total /\ total <= Len(evaluations)
        /\ Returned => /\ 0 <= ret.correct /\ ret.correct <= ret.total
                       /\ ret.total <= Len(ret.evaluations)

C3_NoTruthStep ==
    (Processing /\ Resolvable(CurrentId) /\ ~TruthyAnswer(TruthOf(CurrentId)))
        => /\ evaluations' # evaluations
           /\ Len(evaluations') = Len(evaluations) + 1
           /\ SubSeq(evaluations', 1, Len(evaluations)) = evaluations
           /\ correct' = correct
           /\ total' = total

C3_CountersBounded == [](C3_Bounds) /\ [][C3_NoTruthStep]_vars

C3_Witness ==
    /\ mode = "evaluate" /\ pc = "loop" /\ idx = 2
    /\ Len(evaluations) = 2 /\ total = 1 /\ correct = 1
    /\ ~TruthyAnswer(LastOf(evaluations).ground_truth)

(***************************************************************************)
(* C4. A record marked errored by its vendor (with a custom_id of the form *)
(* subject_questionid) yields an evaluation with response_text             *)
(* "Error: <code/type>", no model answer and correct false; total grows    *)
(* exactly when ground truth exists for it, correct does not grow, and     *)
(* the call does not raise: the loop goes on to the next record.           *)
(***************************************************************************)
W_Error500 == <<"E", "r", "r", "o", "r", ":", " ", "5", "0", "0">>
W_ErrorErrored == <<"E", "r", "r", "o", "r", ":", " ", "e", "r", "r", "o", "r", "e", "d">>
W_Error13 == <<"E", "r", "r", "o", "r", ":", " ", "1", "3">>
W_ErrorNone == <<"E", "r", "r", "o", "r", ":", " ", "N", "o", "n", "e">>
\* the record has no "response" / "result" object, hence no status to show
Statusless(v, r) ==
    CASE v = "openai" -> r.status_code = Absent
      [] v = "claude" -> r.type = "None"
      [] v = "gemini" -> FALSE
ExpectedErrorText(v) ==
    CASE v = "openai" -> W_Error500
      [] v = "claude" -> W_ErrorErrored
      [] v = "gemini" -> W_Error13

C4_ErroredStep ==
    (Processing /\ Errored(vendor, Current) /\ Resolvable(CurrentId))
        => /\ pc' = "loop" /\ raised' = "none"
           /\ Len(evaluations') = Len(evaluations) + 1
           /\ LastOf(evaluations').response_text =
                 (IF Statusless(vendor, Current) THEN W_ErrorNone
                  ELSE ExpectedErrorText(vendor))
           /\ LastOf(evaluations').model_answer = NoAnswer
           /\ LastOf(evaluations').correct = FALSE
           /\ correct' = correct
           /\ total' = total + (IF TruthyAnswer(TruthOf(CurrentId)) THEN 1 ELSE 0)
           /\ total_input_tokens' = total_input_tokens
           /\ total_output_tokens' = total_output_tokens

C4_ErroredRecordScoredWrong == [][C4_ErroredStep]_vars

C4_Witness ==
    /\ Returned /\ Len(results) = 2 /\ Len(ret.evaluations) = 2
    /\ Errored(vendor, results[1]) /\ ~Errored(vendor, results[2])
    /\ ret.evaluations[1].response_text = ExpectedErrorText(vendor)
    /\ ret.evaluations[1].ground_truth = "B"
    /\ ret.evaluations[1].model_answer = NoAnswer
    /\ ret.total = 2 /\ ret.correct = 1

(***************************************************************************)
(* C5. For every vendor, a record with no resolvable custom_id is skipped: *)
(* no evaluation is appended, correct, total and the token totals are      *)
(* unchanged, the call does not raise and goes on to the next record.      *)
(***************************************************************************)
C5_SkipStep ==
    (Processing /\ ~Resolvable(CurrentId))
        => /\ pc' = "loop" /\ raised' = "none"
           /\ idx' = idx + 1
           /\ UNCHANGED <<evaluations, correct, total,
                          total_input_tokens, total_output_tokens>>

C5_UnresolvableRecordSkipped == [][C5_SkipStep]_vars

(***************************************************************************)
(* C6. For a Question whose subject contains no underscore, splitting its  *)
(* custom_id subject_questionid at the first underscore gives back exactly *)
(* (subject, question_id), also when question_id contains underscores; an  *)
(* evaluation of a record carrying such a custom_id has that subject and   *)
(* question id and the ground truth stored under them.                     *)
(***************************************************************************)
C6_CustomIdRoundTrip ==
    /\ (mode = "question" /\ pc = "done" /\ "_" \notin Range(question.subject)) =>
          /\ raised = "none"
          /\ parsed = <<question.subject, question.question_id>>
    /\ Returned =>
          \A i \in 1..Len(ret.evaluations) : \A key \in QuestionKeys :
              ret.evaluations[i].custom_id = Question(key[1], key[2]).custom_id =>
                  /\ ret.evaluations[i].subject = key[1]
                  /\ ret.evaluations[i].question_id = key[2]
                  /\ ret.evaluations[i].ground_truth = Lookup(ground_truth, key[1], key[2])

C6_Witness ==
    /\ mode = "question" /\ pc = "done"
    /\ question.subject = <<"t", "1">>
    /\ question.question_id = <<"_", "1">>
    /\ parsed = <<<<"t", "1">>, <<"_", "1">>>>

(***************************************************************************)
(* C7. The accuracy a vendor's evaluate call returns is correct/total when *)
(* total > 0 and 0 when total = 0; it is always defined (no division by    *)
(* zero) and lies in [0, 1].                                               *)
(***************************************************************************)
C7_AccuracyDefined ==
    Returned =>
        /\ ret.accuracy.den > 0
        /\ ret.total > 0 => ret.accuracy.num * ret.total = ret.correct * ret.accuracy.den
        /\ ret.total = 0 => ret.accuracy.num = 0
        /\ 0 <= ret.accuracy.num /\ ret.accuracy.num <= ret.accuracy.den

C7_Witness ==
    /\ Returned /\ Len(ret.evaluations) = 2
    /\ ret.total = 0 /\ ret.accuracy.num = 0 /\ ret.accuracy.den > 0

(***************************************************************************)
(* C8. The per-subject breakdown of the returned evaluations is consistent *)
(* with the overall figures: the subjects' correct counts sum to the       *)
(* overall correct, their totals to the overall total, and each subject's  *)
(* accuracy is its correct/total, or 0 when its total is 0.                *)
(***************************************************************************)
C8_PerSubjectSums ==
    (mode = "evaluate" /\ pc = "done") =>
        /\ SumOver([s \in DOMAIN per_subject |-> per_subject[s].correct],
                   DOMAIN per_subject) = ret.correct
        /\ SumOver([s \in DOMAIN per_subject |-> per_subject[s].total],
                   DOMAIN per_subject) = ret.total
        /\ \A s \in DOMAIN per_subject :
              /\ per_subject[s].accuracy.den > 0
              /\ per_subject[s].total > 0 =>
                    per_subject[s].accuracy.num * per_subject[s].total
                        = per_subject[s].correct * per_subject[s].accuracy.den
              /\ per_subject[s].total = 0 => per_subject[s].accuracy.num = 0

C8_Witness ==
    /\ mode = "evaluate" /\ pc = "done"
    /\ DOMAIN per_subject = {<<"t">>, <<"m">>}
    /\ per_subject[<<"t">>].correct = 1 /\ per_subject[<<"t">>].total = 1
    /\ per_subject[<<"m">>].correct = 0 /\ per_subject[<<"m">>].total = 1
    /\ ret.correct = 1 /\ ret.total = 2

(***************************************************************************)
(* C9. For the empty string and for None the extractor returns             *)
(* (none, "") from its first statement: it raises nothing and tries no     *)
(* rule.                                                                   *)
(***************************************************************************)
C9_FalsyInput ==
    (Extracted /\ (text = NoneStr \/ text = <<>>)) =>
        /\ out.answer = NoAnswer
        /\ out.reasoning = <<>>
        /\ out.rule = 0

C9_Witness == Extracted /\ text = NoneStr /\ out.answer = NoAnswer /\ out.rule = 0

(***************************************************************************)
(* C10. When none of the eight rules matches a non-empty text the          *)
(* extractor returns no answer and, as reasoning, the input text trimmed   *)
(* of surrounding white space; the evaluators score such a response as     *)
(* unanswered: no model answer, correct false.                             *)
(***************************************************************************)
NoRuleMatches(t) == Truthy(t) /\ MatchingRules(t) = {}

C10_NoMatchKeepsTrimmedText ==
    /\ (Extracted /\ NoRuleMatches(text)) =>
          /\ out.answer = NoAnswer
          /\ out.reasoning = Strip(text)
    /\ Returned =>
          \A i \in 1..Len(ret.evaluations) :
              NoRuleMatches(ret.evaluations[i].response_text) =>
                  /\ ret.evaluations[i].model_answer = NoAnswer
                  /\ ret.evaluations[i].correct = FALSE

C10_Witness ==
    /\ Extracted /\ NoRuleMatches(text)
    /\ text # Strip(text) /\ Strip(text) # <<>>
    /\ out.answer = NoAnswer /\ out.reasoning = Strip(text)

\* C10 as stated: the reasoning is the full input text, untrimmed
C10_Original ==
    (Extracted /\ NoRuleMatches(text)) =>
        /\ out.answer = NoAnswer
        /\ out.reasoning = text

(***************************************************************************)
(* C11. For each letter X of A..E, the text                                *)
(* "Some reasoning here. Answer: " followed by X yields the answer X and   *)
(* the reasoning "Some reasoning here.".                                   *)
(***************************************************************************)
W_SomeReasoningHere == SubSeq(X_reasoning, 1, 20)

C11_LabelledAnswerExample ==
    Extracted =>
        \A x \in AnswerLetters :
            text = X_reasoning \o <<x>> =>
                /\ out.answer = x
                /\ out.reasoning = W_SomeReasoningHere
                /\ out.rule = 2

C11_Witness ==
    /\ Extracted /\ text = X_reasoning \o <<"E">>
    /\ out.answer = "E" /\ Len(out.reasoning) = 20 /\ LastOf(out.reasoning) = "."

(***************************************************************************)
(* C12. When one of rules 1-6 is the first to match, the reasoning is the  *)
(* original, case-preserved text cut at the position where the match       *)
(* begins, trimmed of surrounding white space: the offset found in the     *)
(* upper-cased copy designates the same position of the original text.     *)
(***************************************************************************)
\* the position of the original text o whose upper-cased image begins at
\* (or, inside the image of one character, just before) offset p of Upper(o)
OriginalOffset(o, p) == MaxOf({n \in 0..Len(o) : Len(Upper(Slice(o, n))) <= p})

\* the position of the original text where the match of rule k begins
MatchPosition(t, k) ==
    OriginalOffset(Strip(t), RuleMatch(k, Strip(Upper(t))).start)

C12_ReasoningCutAtMatch ==
    (Extracted /\ out.rule \in 1..6) =>
        out.reasoning = Strip(Slice(Strip(text), MatchPosition(text, out.rule)))

(***************************************************************************)
(* C13. When rule 7 or rule 8 produces the answer, the reasoning is the    *)
(* entire (trimmed) original text if the matched letter lies at most 20    *)
(* characters from the start, and the trimmed prefix of the original text  *)
(* up to the letter if it lies more than 20 characters from the start.     *)
(***************************************************************************)
C13_ThresholdReasoning ==
    (Extracted /\ out.rule \in {7, 8}) =>
        LET at == MatchPosition(text, out.rule)
        IN  /\ at <= ReasoningThreshold => out.reasoning = Strip(text)
            /\ at > ReasoningThreshold => out.reasoning = Strip(Slice(Strip(text), at))

(***************************************************************************)
(* C14. calculate_cost returns None exactly when the model is absent from  *)
(* the price table or its input or output price is unset; a model whose    *)
(* prices are 0 costs 0 and not None, and an unpriced model never costs 0. *)
(***************************************************************************)
Costed == mode = "cost" /\ pc = "done"

\* the model has an entry in the table with both prices set
Priced(table, m) ==
    /\ m \in DOMAIN table
    /\ DOMAIN table[m] = {"input", "output"}
    /\ table[m].input # Absent /\ table[m].output # Absent

IsZero(c) == ~c.none /\ c.num = 0

C14_NoneIffUnpriced ==
    Costed =>
        /\ cost.none <=> ~Priced(price_table, model)
        /\ (Priced(price_table, model)
              /\ price_table[model].input = 0 /\ price_table[model].output = 0)
             => IsZero(cost)
        /\ ~Priced(price_table, model) => ~IsZero(cost)

C14_Witness ==
    /\ Costed /\ Priced(price_table, model)
    /\ price_table[model].input = 0 /\ price_table[model].output = 0
    /\ input_tokens = MILLION /\ output_tokens > 0
    /\ IsZero(cost)

(***************************************************************************)
(* C15. For a priced model the cost is                                     *)
(* input_tokens * price_in / 1,000,000 + output_tokens * price_out /       *)
(* 1,000,000; a million input and a million output tokens of               *)
(* claude-sonnet-4-5 cost 2.50 + 12.50 = 15 dollars; and the cost does not *)
(* decrease when either token count grows.                                 *)
(***************************************************************************)
\* a cost is a fraction of a dollar: c <= d (over one denominator), and c = n dollars
CostLeq(c, d) == c.den = d.den /\ c.num <= d.num
CostIsDollars(c, n) == ~c.none /\ c.num = n * c.den

C15_CostFormula ==
    (Costed /\ Priced(price_table, model)) =>
        /\ ~cost.none
        /\ cost.den = Dollars(1, 0) * MILLION
        /\ cost.num = input_tokens * price_table[model].input
                        + output_tokens * price_table[model].output
        /\ (price_table = PRICING /\ model = "claude-sonnet-4-5"
              /\ input_tokens = MILLION /\ output_tokens = MILLION)
             => CostIsDollars(cost, 15)
        /\ \A more \in TokenCounts :
              /\ more >= input_tokens =>
                    CostLeq(cost, calculate_cost(price_table, model, more, output_tokens))
              /\ more >= output_tokens =>
                    CostLeq(cost, calculate_cost(price_table, model, input_tokens, more))

C15_Witness ==
    /\ Costed /\ price_table = PRICING /\ model = CLAUDE_MODEL
    /\ input_tokens = MILLION /\ output_tokens = MILLION
    /\ CostIsDollars(cost, 15)

(***************************************************************************)
(* C17. wait_for_completion keeps polling while the job status is not      *)
(* terminal and returns only after observing a terminal status: True when  *)
(* the job succeeded, False when it failed, was canceled or expired.       *)
(***************************************************************************)
\* the statuses of a job that has come to its end, and of one that succeeded
TerminalStatuses(v) ==
    CASE v = "openai" -> {"completed", "failed", "expired", "cancelled"}
      [] v = "claude" -> {"ended", "canceled"}
      [] v = "gemini" -> {"JOB_STATE_SUCCEEDED", "JOB_STATE_FAILED",
                          "JOB_STATE_CANCELLED", "JOB_STATE_EXPIRED"}
SucceededStatus(v) ==
    CASE v = "openai" -> "completed"
      [] v = "claude" -> "ended"
      [] v = "gemini" -> "JOB_STATE_SUCCEEDED"

C17_ReturnsOnTerminalStatus ==
    (mode = "wait" /\ op = "wait_for_completion") =>
        /\ pc = "returned" =>
              /\ status \in TerminalStatuses(vendor)
              /\ success = "True" <=> status = SucceededStatus(vendor)
              /\ success = "False" <=> status # SucceededStatus(vendor)
        /\ (pc = "polling" /\ status # "none") => status \notin TerminalStatuses(vendor)

(***************************************************************************)
(* C18. Polling is bounded: wait_for_completion polls every POLL_INTERVAL  *)
(* seconds for at most MAX_WAIT_TIME seconds, after which the run is       *)
(* treated as failed; it never goes on polling beyond the maximum wait.    *)
(***************************************************************************)
C18_PollingBounded ==
    mode = "wait" => elapsed <= MAX_WAIT_TIME

\* the cost calculate_cost returns for the tokens of a completed entry
CostOfEntry(e) ==
    calculate_cost(PRICING, e.model, e.evaluation.tokens.input, e.evaluation.tokens.output)

\* n ten-thousandths of a dollar is the cost c to within half a ten-thousandth
RendersCost(n, c) ==
    LET unit == c.den \div 10000
    IN  2 * (n * unit - c.num) <= unit /\ 2 * (c.num - n * unit) <= unit

\* the line of a report on the entry e shows the cost of e exactly when there is one
ShowsCostOf(line, e) ==
    IF e.status = "completed" /\ ~CostOfEntry(e).none
    THEN "Cost" \in DOMAIN line /\ RendersCost(line.Cost, CostOfEntry(e))
    ELSE "Cost" \notin DOMAIN line

\* C16: when calculate_cost returns None for a vendor's run, the run's metrics
\* have no 'cost' key and the model's row of the summary CSV and section of the
\* text report show no cost; when it returns a number, zero included, that
\* number is stored under 'cost' and the row and the section show it.
C16_CostOmittedWhenNone ==
    /\ (mode = "run" /\ pc = "per_subject") =>
          /\ cost = calculate_cost(PRICING, ModelOf(vendor), ret.tokens.input,
                                   ret.tokens.output)
          /\ cost.none => "cost" \notin DOMAIN metrics
          /\ ~cost.none => ("cost" \in DOMAIN metrics /\ metrics.cost = cost)
    /\ (mode = "run" /\ pc = "done") =>
          /\ \A name \in DOMAIN run_results :
                run_results[name].status = "completed" =>
                   ("cost" \in DOMAIN run_results[name].metrics
                       <=> ~CostOfEntry(run_results[name]).none)
          /\ \A i \in DOMAIN reports.summary_csv :
                ShowsCostOf(reports.summary_csv[i],
                            run_results[reports.summary_csv[i].Model])
          /\ \A i \in DOMAIN reports.text_report :
                ShowsCostOf(reports.text_report[i],
                            run_results[reports.text_report[i].Model])

\* a run of the three vendors in which OpenAI's million tokens have no price and
\* no cost is shown, Claude's cost is 2.5000 dollars and Gemini's run failed
C16_Witness ==
    /\ mode = "run" /\ pc = "done" /\ Len(reports.summary_csv) = 3
    /\ run_results["OpenAI"].status = "completed"
    /\ run_results["OpenAI"].evaluation.tokens.input = MILLION
    /\ "Cost" \notin DOMAIN reports.summary_csv[1]
    /\ "Cost" \notin DOMAIN reports.text_report[1]
    /\ run_results["Claude"].status = "completed"
    /\ run_results["Claude"].evaluation.tokens.input = MILLION
    /\ reports.summary_csv[2].Cost = 25000
    /\ reports.text_report[2].Cost = 25000
    /\ run_results["Gemini"].status = "failed"
    /\ "Cost" \notin DOMAIN reports.summary_csv[3]

\* a run of Claude alone on an empty result list: the cost 0 is stored and shown
C16_ZeroWitness ==
    /\ mode = "run" /\ pc = "done" /\ models = <<"claude">>
    /\ run_results["Claude"].status = "completed"
    /\ run_results["Claude"].metrics.cost.num = 0
    /\ reports.summary_csv[1].Cost = 0

\* the names under which main stores the runs of the selected vendors
SelectedNames == {DisplayName(models[i]) : i \in DOMAIN models}

\* the run of the vendor that main called last is over
RunOver == mode = "run" /\ pc \in {"main", "done"} /\ vendor # "none"

\* C19: a job the vendor reports failed, or an exception raised by any step of
\* one vendor's run, ends up in that vendor's entry of the results alone, as
\* status 'failed' or 'error'; main is never left by it, the entries of the other
\* vendors are not touched, every selected vendor gets its entry, and the
\* reports are generated with a row and a section for each.
C19_FailureConfined ==
    /\ [](mode = "run" => pc # "crashed")
    /\ [](RunOver =>
            /\ DisplayName(vendor) \in DOMAIN run_results
            /\ raised # "none" =>
                  run_results[DisplayName(vendor)] = [status |-> "error", error |-> raised]
            /\ (raised = "none" /\ success = "False") =>
                  run_results[DisplayName(vendor)] = [status |-> "failed"]
            /\ (raised = "none" /\ success = "True") =>
                  run_results[DisplayName(vendor)] =
                     [status |-> "completed", model |-> ModelOf(vendor),
                      evaluation |-> ret, metrics |-> metrics,
                      per_subject |-> per_subject])
    /\ []((mode = "run" /\ pc = "done") =>
            /\ DOMAIN run_results = SelectedNames
            /\ Len(reports.summary_csv) = Len(models)
            /\ Len(reports.text_report) = Len(models)
            /\ \A i \in DOMAIN models :
                  /\ reports.summary_csv[i].Model = DisplayName(models[i])
                  /\ reports.text_report[i].Model = DisplayName(models[i]))
    /\ [][\A name \in DOMAIN run_results :
             name \in DOMAIN run_results' /\ run_results'[name] = run_results[name]]_vars

\* OpenAI's run raised, Claude's job was reported failed, and Gemini's run
\* completed with an evaluated answer; the reports cover the three of them
C19_Witness ==
    /\ mode = "run" /\ pc = "done" /\ models = <<"openai", "claude", "gemini">>
    /\ run_results["OpenAI"].status = "error"
    /\ run_results["Claude"] = FailedEntry
    /\ run_results["Gemini"].status = "completed"
    /\ run_results["Gemini"].evaluation.correct = 1
    /\ Len(reports.summary_csv) = 3
    /\ reports.summary_csv[3].Correct = 1

\* the record r is evaluated and carries an answer of the vendor v
SuccessfullyAnswered(v, r) ==
    CASE v = "openai" -> r.status_code = 200 /\ r.choices # <<>>
      [] v = "claude" -> r.type = "succeeded"
      [] v = "gemini" ->
            /\ r.key # NoneStr \/ r.custom_id # NoneStr \/ r.metadata_custom_id # NoneStr
            /\ ~r.has_error /\ r.candidates # <<>>

\* a usage count of a record, 0 when the vendor did not send it
CountOr0(n) == IF n = Absent THEN 0 ELSE n

\* the input and output counts of the record r of the vendor v
InputCount(v, r) ==
    CASE v = "openai" -> CountOr0(r.prompt_tokens)
      [] v = "claude" -> CountOr0(r.input_tokens)
      [] v = "gemini" -> CountOr0(r.promptTokenCount)
OutputCount(v, r) ==
    CASE v = "openai" -> CountOr0(r.completion_tokens)
      [] v = "claude" -> CountOr0(r.output_tokens)
      [] v = "gemini" -> CountOr0(r.candidatesTokenCount) + CountOr0(r.thoughtsTokenCount)

RECURSIVE InputSum(_, _)
InputSum(v, rs) ==
    IF rs = <<>> THEN 0
    ELSE (IF SuccessfullyAnswered(v, Head(rs)) THEN InputCount(v, Head(rs)) ELSE 0)
         + InputSum(v, Tail(rs))
RECURSIVE OutputSum(_, _)
OutputSum(v, rs) ==
    IF rs = <<>> THEN 0
    ELSE (IF SuccessfullyAnswered(v, Head(rs)) THEN OutputCount(v, Head(rs)) ELSE 0)
         + OutputSum(v, Tail(rs))

\* C20: the token totals an evaluate call returns are the sums, over the
\* successfully answered records alone, of the vendor's input and output counts
\* (prompt_tokens / completion_tokens, input_tokens / output_tokens,
\* promptTokenCount / candidatesTokenCount); Gemini's thoughtsTokenCount is added
\* to the output; and tokens.total = tokens.input + tokens.output.
C20_TokenTotals ==
    Returned =>
        /\ ret.tokens.input = InputSum(vendor, results)
        /\ ret.tokens.output = OutputSum(vendor, results)
        /\ ret.tokens.total = ret.tokens.input + ret.tokens.output

\* a Gemini call on an answered record with 3 prompt, 2 candidate and 1 thinking
\* tokens followed by an errored record that carries counts of its own
C20_Witness ==
    /\ Returned /\ vendor = "gemini"
    /\ results = <<GeminiRecord(C_right), GeminiRecord(C_errored)>>
    /\ ret.tokens = [input |-> 3, output |-> 3, total |-> 6]

\* a label word, a colon, whitespace, a letter A-E
LabelColonSpaceLetter ==
    <<Alt(<<W_ANSWER, W_CEVAP, W_YANIT>>), Lit(<<":">>), Plus(SpaceChars), Capture>>

\* C24: rule 2 fires only on a label word Answer, Cevap or Yanit (in any
\* letter case) followed by a colon, then whitespace, then a letter A-E: where
\* rule 2 decided, the text matched has that shape.
C24_LabelNeedsColonAndSpace ==
    (Extracted /\ out.rule = 2) =>
        RuleMatch(2, Strip(Upper(text))).start
            \in MatchStarts(Strip(Upper(text)), LabelColonSpaceLetter)

\* the characters of the trimmed, upper-cased text
UpperChars(t) == {Strip(Upper(t))[i] : i \in 1..Len(Strip(Upper(t)))}

\* C26: the answer of extract_answer_and_reasoning is none or one of the
\* letters A-E, and it is none exactly when the text is falsy or its trimmed,
\* upper-cased copy holds no character A-E: a text with such a character
\* anywhere, inside a word too, yields a letter.
C26_LetterUnlessNoneInText ==
    Extracted =>
        /\ out.answer \in AnswerLetters \cup {NoAnswer}
        /\ out.answer = NoAnswer <=>
              (~Truthy(text) \/ UpperChars(text) \cap AnswerLetters = {})

\* "The ": no label and no standalone letter, and the E of THE is returned
C26_Witness ==
    /\ Extracted /\ text = K_the
    /\ out.answer = "E" /\ out.rule = 8

\* the pattern of rule k
PatternOf(k) ==
    CASE k = 1 -> Pattern1 [] k = 2 -> Pattern2 [] k = 3 -> Pattern3 [] k = 4 -> Pattern4
      [] k = 5 -> Pattern5 [] k = 6 -> Pattern6 [] k = 7 -> Pattern7 [] k = 8 -> Pattern8

\* the offset of the leftmost occurrence of the pattern of rule k in u
Leftmost(k, u) == MinOf(MatchStarts(u, PatternOf(k)))

\* the offsets of u that hold a letter A-E
LetterOffsets(u) == {p \in 0..(Len(u) - 1) : IsLetterAt(u, p)}

\* C27: where one of rules 1-4 and 6 decides, the leftmost occurrence of its
\* pattern gives the letter and the reasoning is the text before that
\* occurrence; rule 7 returns the last standalone letter of the text and rule 8
\* its last character A-E.
C27_LeftmostOrLast ==
    Extracted =>
        /\ out.rule \in {1, 2, 3, 4, 6} =>
              /\ out.answer = MatchFrom(Strip(Upper(text)),
                                        Leftmost(out.rule, Strip(Upper(text))),
                                        PatternOf(out.rule), NoAnswer)
              /\ out.reasoning =
                    Strip(Slice(Strip(text),
                                OriginalOffset(Strip(text),
                                               Leftmost(out.rule, Strip(Upper(text))))))
        /\ out.rule = 7 =>
              out.answer = CharAt(Strip(Upper(text)),
                                  MaxOf(MatchStarts(Strip(Upper(text)), Pattern7)))
        /\ out.rule = 8 =>
              out.answer = CharAt(Strip(Upper(text)),
                                  MaxOf(LetterOffsets(Strip(Upper(text)))))

\* the fields of an Evaluation
EvaluationFields ==
    {"custom_id", "subject", "question_id", "ground_truth", "model_answer",
     "reasoning", "response_text", "correct"}

\* the custom_ids of the records of rs that are not skipped, in the order of rs
RECURSIVE KeptIds(_, _)
KeptIds(v, rs) ==
    IF rs = <<>> THEN <<>>
    ELSE (IF Truthy(RecordId(v, Head(rs))) THEN <<RecordId(v, Head(rs))>> ELSE <<>>)
         \o KeptIds(v, Tail(rs))

\* C22: an evaluate call returns one Evaluation for each input record it does
\* not skip, in the order of the input, and every Evaluation of every vendor
\* has the fields custom_id, subject, question_id, ground_truth, model_answer,
\* reasoning, response_text and correct.
C22_OneEvaluationPerRecord ==
    Returned =>
        /\ [i \in 1..Len(ret.evaluations) |-> ret.evaluations[i].custom_id]
              = KeptIds(vendor, results)
        /\ \A i \in 1..Len(ret.evaluations) :
              DOMAIN ret.evaluations[i] = EvaluationFields

\* an optional field of the record r of the vendor v is absent
LacksOptional(v, r) ==
    CASE v = "openai" ->
            \/ r.status_code = Absent \/ r.choices = <<>> \/ r.choices = <<NoneStr>>
            \/ r.prompt_tokens = Absent \/ r.completion_tokens = Absent
      [] v = "claude" ->
            \/ r.type = "None" \/ r.content = <<>>
            \/ \E i \in 1..Len(r.content) : r.content[i].text = NoneStr
            \/ r.input_tokens = Absent \/ r.output_tokens = Absent
      [] v = "gemini" ->
            \/ r.candidates = <<>>
            \/ (r.candidates # <<>> /\ NoneStr \in Range(r.candidates[1]))
            \/ r.promptTokenCount = Absent \/ r.candidatesTokenCount = Absent
            \/ r.thoughtsTokenCount = Absent

C21_AbsentFieldStep ==
    (Processing /\ Resolvable(CurrentId) /\ LacksOptional(vendor, Current))
        => /\ pc' = "loop" /\ raised' = "none"
           /\ idx' = idx + 1
           /\ Len(evaluations') = Len(evaluations) + 1
           /\ total_input_tokens' = total_input_tokens +
                 (IF SuccessfullyAnswered(vendor, Current)
                  THEN InputCount(vendor, Current) ELSE 0)
           /\ total_output_tokens' = total_output_tokens +
                 (IF SuccessfullyAnswered(vendor, Current)
                  THEN OutputCount(vendor, Current) ELSE 0)

\* C21: evaluating a record that has a custom_id and lacks an optional field
\* (the response or result object, body, choices, message, content blocks or
\* parts, text, usage, a token count) does not raise, for any vendor: the
\* record gets its evaluation, and an absent token count adds 0 to the totals.
C21_AbsentFieldsTolerated == [][C21_AbsentFieldStep]_vars

\* an OpenAI call on a line without response object followed by an answered
\* record without usage: two evaluations, no tokens
C21_Witness ==
    /\ Returned /\ vendor = "openai"
    /\ results = <<OpenAIBare, OpenAIRecord(Case(ID_t1, "key", TRUE, TRUE, R_c,
                                                  Absent, Absent, Absent))>>
    /\ Len(ret.evaluations) = 2
    /\ ret.evaluations[1].response_text = W_ErrorNone
    /\ ret.evaluations[2].model_answer = "C"
    /\ ret.tokens = [input |-> 0, output |-> 0, total |-> 0]

\* the cases as a vendor without thinking tokens reports them
PlainCases == {[c EXCEPT !.thinking = Absent] : c \in Cases}

\* the sequences of cases that the result list rs of the vendor v encodes
EncodingsOf(v, rs) ==
    {cs \in [1..Len(rs) -> PlainCases] : \A i \in 1..Len(rs) : VendorRecord(v, cs[i]) = rs[i]}

\* the result list that encodes the cases cs in the shape of the vendor w
Encode(w, cs) == [i \in 1..Len(cs) |-> VendorRecord(w, cs[i])]

\* what must agree between two evaluations of the same record
Verdict(e) == <<e.ground_truth, e.model_answer, e.correct>>

\* the call with the tally acc returns what the call that returned r returns
Agrees(acc, r) ==
    /\ acc.exc = "none"
    /\ acc.correct = r.correct /\ acc.total = r.total
    /\ Accuracy(acc.correct, acc.total) = r.accuracy
    /\ acc.input = r.tokens.input /\ acc.output = r.tokens.output
    /\ Len(acc.evaluations) = Len(r.evaluations)
    /\ \A i \in 1..Len(r.evaluations) :
          Verdict(acc.evaluations[i]) = Verdict(r.evaluations[i])

\* C23: the three evaluators are the same fold: on result lists that encode,
\* each in its vendor's shape, the same custom_ids, statuses, response texts and
\* token counts, they return the same correct, total, accuracy and token totals
\* and the same ground_truth, model_answer and correct for every record.
C23_SameFold ==
    Returned =>
        \A cs \in EncodingsOf(vendor, results) : \A w \in Vendors :
            Agrees(EvaluateLoop(w, Encode(w, cs), ground_truth, NoTally), ret)

\* a method of a service has been called and is over
ServiceCallOver == mode = "wait" /\ pc \in {"returned", "raised"}

\* C28: on a service on which no batch has been submitted, wait_for_completion
\* and download_results raise ValueError, check_status returns 'not_submitted'
\* and get_metrics returns an empty mapping, without any request to the vendor;
\* and download_results of OpenAI and Gemini raises ValueError whenever the
\* status of the job is not the success status.
C28_NotSubmittedGuards ==
    /\ (ServiceCallOver /\ batch_id = NoBatch) =>
          /\ ~contacted
          /\ op \in {"wait_for_completion", "download_results"} =>
                (pc = "raised" /\ raised = "ValueError")
          /\ op = "check_status" => (pc = "returned" /\ status = "not_submitted")
          /\ op = "get_metrics" => (pc = "returned" /\ metrics = <<>>)
    /\ (ServiceCallOver /\ op = "download_results" /\ vendor \in {"openai", "gemini"}
          /\ contacted /\ status # SucceededStatus(vendor)) =>
             (pc = "raised" /\ raised = "ValueError" /\ results = <<>>)

\* download_results on a Gemini service that never submitted a batch
C28_Witness ==
    /\ mode = "wait" /\ op = "download_results" /\ vendor = "gemini"
    /\ batch_id = NoBatch /\ pc = "raised" /\ raised = "ValueError" /\ ~contacted

\* the steps of run_*_benchmark that follow a wait_for_completion that returned True
AfterWait == {"download", "evaluate", "metrics", "cost", "per_subject"}

\* the order of the steps: each step is followed by the next one, or, when it
\* raises or the job failed, by the return to main
StepOrder ==
    {<<"main", "submit">>, <<"submit", "wait">>, <<"wait", "download">>,
     <<"download", "evaluate">>, <<"evaluate", "metrics">>, <<"metrics", "cost">>,
     <<"cost", "per_subject">>, <<"per_subject", "main">>, <<"main", "done">>}
        \cup {<<step, "main">> : step \in {"submit", "wait", "download", "evaluate", "metrics"}}

\* C29: in a run_*_benchmark the steps occur in the order submit, wait,
\* download, evaluate, metrics, cost, per-subject; download_results and the
\* evaluation are reached only after wait_for_completion returned True; when it
\* returns False the run ends as {'status': 'failed'} with no evaluation, metrics
\* or per-subject data; and a run is 'completed' only if no step failed.
C29_StepsInOrder ==
    /\ [](mode = "run" =>
            /\ pc \in AfterWait => (success = "True" /\ batch_id # NoBatch)
            /\ pc \in {"submit", "wait"} => success = "none"
            /\ pc \in {"submit", "wait", "download"} => results = <<>>
            /\ pc \in {"submit", "wait", "download", "evaluate"} => ret = <<>>
            /\ pc \in {"submit", "wait", "download", "evaluate", "metrics"} =>
                  (metrics = <<>> /\ model = "none")
            /\ pc \in {"metrics", "cost", "per_subject"} => ret # <<>>
            /\ pc \in {"cost", "per_subject"} => metrics # <<>>
            /\ pc = "per_subject" => model = ModelOf(vendor)
            /\ \A name \in DOMAIN run_results :
                  /\ run_results[name].status = "failed" =>
                        DOMAIN run_results[name] = {"status"}
                  /\ run_results[name].status = "completed" =>
                        DOMAIN run_results[name] =
                           {"status", "model", "evaluation", "metrics", "per_subject"}
            /\ (RunOver /\ success = "False") =>
                  /\ run_results[DisplayName(vendor)].status \in {"failed", "error"}
                  /\ results = <<>> /\ ret = <<>> /\ metrics = <<>>
            /\ (RunOver /\ run_results[DisplayName(vendor)].status = "completed") =>
                  /\ raised = "none" /\ success = "True" /\ batch_id # NoBatch
                  /\ ret # <<>> /\ metrics # <<>> /\ model = ModelOf(vendor))
    /\ [][mode = "run" => <<pc, pc'>> \in StepOrder]_vars

\* OpenAI's job was reported failed: its entry is the bare status, and Claude's
\* run that followed went through every step
C29_Witness ==
    /\ mode = "run" /\ pc = "main" /\ vendor = "claude"
    /\ models = <<"openai", "claude", "gemini">>
    /\ run_results["OpenAI"] = [status |-> "failed"]
    /\ run_results["Claude"].status = "completed"
    /\ run_results["Claude"].evaluation.total = 1
    /\ success = "True" /\ results # <<>>

\* the metrics of the entry e of the results have a 'cost'
HasCost(e) == "cost" \in DOMAIN GetOr(e, "metrics", <<>>)

\* C30: with the shipped configuration the model name a run hands to
\* calculate_cost is looked up verbatim in PRICING, whose keys are 'chatgpt-5',
\* 'claude-sonnet-4-5' and 'gemini-3-pro': 'gpt-5-2025-08-07' and
\* 'gemini-2.5-flash' are not among them, calculate_cost returns None for the
\* OpenAI and Gemini runs, and only a completed Claude run has a 'cost' in its
\* metrics.
C30_OnlyClaudeIsPriced ==
    /\ DOMAIN PRICING = {"chatgpt-5", "claude-sonnet-4-5", "gemini-3-pro"}
    /\ mode = "run" =>
          /\ price_table = PRICING
          /\ pc = "per_subject" =>
                /\ model = (CASE vendor = "openai" -> "gpt-5-2025-08-07"
                              [] vendor = "claude" -> "claude-sonnet-4-5"
                              [] vendor = "gemini" -> "gemini-2.5-flash")
                /\ cost.none <=> vendor \in {"openai", "gemini"}
                /\ cost.none <=> model \notin DOMAIN PRICING
                /\ "cost" \in DOMAIN metrics <=> vendor = "claude"
          /\ \A name \in DOMAIN run_results :
                HasCost(run_results[name]) <=>
                   (name = "Claude" /\ run_results[name].status = "completed")

\* the three vendors completed on a million input tokens each: no cost for
\* OpenAI and Gemini, 2.5 dollars and 25 millionths for Claude
C30_Witness ==
    /\ mode = "run" /\ pc = "done" /\ models = <<"openai", "claude", "gemini">>
    /\ \A name \in {"OpenAI", "Claude", "Gemini"} :
          /\ run_results[name].status = "completed"
          /\ run_results[name].evaluation.tokens.input = MILLION
    /\ ~HasCost(run_results["OpenAI"]) /\ ~HasCost(run_results["Gemini"])
    /\ run_results["Claude"].metrics.cost.num = 20000200

\* the steps of one evaluator call after the ground truth was loaded
EvaluatorCall ==
    \/ mode \in {"extract", "evaluate", "cost"}
    \/ mode = "run" /\ pc \in {"evaluate", "metrics", "cost", "per_subject"}

\* C25: the ground truth is loaded once, at construction, and no evaluate,
\* per-subject, extract or cost call changes it or the result records it is
\* given; an evaluate call starts from fresh counters, so what it returns
\* depends on the records and the ground truth alone, and calling it again on
\* the same records, with per-subject calls in between or not, returns a dict
\* equal to the first and a per-subject breakdown equal to the first.
C25_NoCarriedState ==
    /\ [](Returned =>
            ret = EvaluationDictOf(EvaluateLoop(vendor, results, ground_truth,
                     [exc |-> "none", evaluations |-> <<>>, correct |-> 0,
                      total |-> 0, input |-> 0, output |-> 0])))
    /\ [][/\ ground_truth' = ground_truth
          /\ EvaluatorCall => results' = results /\ price_table' = price_table
          /\ (mode = "evaluate" /\ ret # <<>>) => ret' = ret
          /\ (mode = "evaluate" /\ per_subject # <<>>) => per_subject' = per_subject]_vars

\* a second call on two records has consumed both and its counters and its
\* list equal those of the dict the first call returned, one answer correct
C25_Witness ==
    /\ mode = "evaluate" /\ pc = "loop" /\ ret # <<>> /\ per_subject # <<>>
    /\ Len(results) = 2 /\ idx = 2
    /\ evaluations = ret.evaluations /\ Len(evaluations) = 2
    /\ correct = ret.correct /\ correct = 1 /\ total = ret.total
    /\ total_input_tokens = ret.tokens.input /\ total_input_tokens > 0

=============================================================================
